---- MODULE Spec2Model ----
(***************************************************************************)
(* Message dispatch engine of the Unlimited SMS Gateway (src/index.js):    *)
(* the per-user conversation state machine, the interactive send with its  *)
(* single retry, the transmission executor and the queue drain.            *)
(*                                                                         *)
(* Texts are sequences of one-character strings.  A handler suspended on   *)
(* an await keeps the session object it read from userSessions, whatever  *)
(* the map holds later.                                                    *)
(***************************************************************************)
EXTENDS Integers, Sequences, FiniteSets, TLC

VARIABLES
    userSessions,      \* this.userSessions: user -> session, NoSession when absent
    systemStats,       \* this.systemStats: totalSMS, successful, failed
    sends,             \* the sendSMS invocations so far, with their position
    smsLogs,           \* data/sms_logs.json: the main transmission log
    detailFiles,       \* logs/transmission_<id>.json: ids written
    reply,             \* what the last conversational turn produced
    transmissionQueue, \* this.transmissionQueue
    batches,           \* the processTransmissionQueue invocations in flight
    queued,            \* requests pushed on the queue so far (id -> request)
    attempted,         \* queue request id -> result of its transmission
    ticks,             \* non-empty drain ticks so far
    sinceArrival,      \* backlog at the last arrival, and drain ticks since
    now,               \* Date.now(), in minutes since the process started
    healthLog,         \* logs/health.json: the health samples
    notified,          \* ids of the transmissions whose outcome the user was told
    systemStatus,      \* this.systemStatus
    initPc,            \* where the current run of initialize() stands
    initializations,   \* calls of initialize() so far
    timers,            \* timers armed and intervals started, by kind
    exitStatus,        \* the status process.exit was called with, if it was
    token,             \* config.TELEGRAM_BOT_TOKEN is set
    request,           \* the arguments a function of the engine is called with
    answer             \* the function called last on them, and what it returned

vars == << userSessions, systemStats, sends, smsLogs, detailFiles,
           reply, transmissionQueue, batches, queued, attempted,
           ticks, sinceArrival, now, healthLog, notified,
           systemStatus, initPc, initializations, timers, exitStatus, token,
           request, answer >>

sendVars == << systemStats, sends, smsLogs, detailFiles, notified >>
queueVars == << transmissionQueue, batches, queued, attempted, ticks, sinceArrival >>
bootVars == << systemStatus, initPc, initializations, timers, exitStatus, token >>

monitorVars == << now, healthLog >>
callVars == << request, answer >>

\* No function is being examined on its own.
NoRequest == [phoneNumber |-> << >>, message |-> << >>]
NoAnswer == [of |-> "none", value |-> "none"]

\* exitStatus while the process runs, and once process.exit(status) was called.
NotExited == << >>
Exited(status) == << status >>

-----------------------------------------------------------------------------
(* Bounds of the model.                                                    *)

Users == {"u1", "u2"}

\* The user whose conversation is explored with every input.
Soloist == {"u1"}

\* sendSMS invocations in one behaviour.
MaxSends == 2

\* Requests pushed on the transmission queue in one behaviour.
MaxRequests == 14

\* Drain ticks that find the queue non-empty in one behaviour.
MaxTicks == 3

\* The caps where two users' sends and the queue run together.
MixSends == 2

MixRequests == 1

MixTicks == 1

\* Minutes of one behaviour with the maintenance interval.
MaxClock == 6

\* sendSMS invocations and minutes where the logs start filled.
LogSends == 1

LogClock == 1

\* Minutes where the flow starts are explored.
FlowClock == 2

\* sendSMS invocations where cancel is explored.
CancelSends == 2

\* Calls of initialize() in one behaviour, and sendSMS invocations once the
\* gateway serves.
MaxInits == 3
BootSends == 1

\* Digits after the prefix in the addresses the validator is called with.
MaxDigits == 15

\* The messages the validator and the splitter are called with: up to
\* MaxShort characters, within MaxOver of the maximum length, and within one
\* character of 1..MaxPieces full pieces.
MaxShort == 2
MaxOver == 1
MaxPieces == 3

\* The values of Math.random() the scores are computed with: JitterSteps
\* equal steps from 0 up.
JitterSteps == 2

-----------------------------------------------------------------------------
(* Texts.                                                                  *)

\* A field that was never set.  Texts are sequences of single characters, so
\* this value is no text.
Undefined == << "undefined" >>

\* session.data.country and session.data.messageParts when never set (a
\* stored messageParts always holds at least one piece).
NoCountry == "undefined"

NoParts == << >>

Digits == {"0", "1", "2", "3", "4", "5", "6", "7", "8", "9"}

NonZeroDigits == Digits \ {"0"}

Whitespace == {" ", "\t", "\n"}

PhonePK == << "+", "9", "2", "3", "0", "0", "1", "2", "3", "4", "5", "6", "7" >>

PhoneShort == << "+", "4", "4", "0", "0", "0", "0", "0", "0", "0" >>

MsgHi == << "H", "i" >>

\* "2024-01-15 14:30", the time of the schedule prompt.
ScheduleTime ==
    << "2", "0", "2", "4", "-", "0", "1", "-", "1", "5", " ", "1", "4", ":", "3", "0" >>

MsgBlank == << " ", " " >>

MAX_MESSAGE_LENGTH == 1000

MsgTooLong == [i \in 1..(MAX_MESSAGE_LENGTH + 1) |-> "a"]

\* n times the character c.
Repeat(c, n) == [i \in 1..n |-> c]

\* What addresses begin with: the prefixes of the country table, other
\* country digits, a leading zero, no "+", nothing.
PhonePrefixes ==
    { << "+", "9", "2" >>, << "+", "1" >>, << "+", "4", "4" >>, << "+", "9", "7", "1" >>,
      << "+", "9", "6", "6" >>, << "+", "9", "1" >>, << "+", "8", "6" >>,
      << "+", "9" >>, << "+", "7" >>, << "+", "0" >>, << "+" >>, << "9", "2" >>,
      << "0", "0", "9", "2" >>, << >> }

\* The addresses the validator is called with: a prefix and up to MaxDigits
\* equal digits, and a well-formed address with one character replaced.
PhoneInputs ==
    { p \o Repeat(d, n) : p \in PhonePrefixes, d \in { "0", "7" }, n \in 0..MaxDigits }
    \cup { [PhonePK EXCEPT ![i] = c] : i \in 1..Len(PhonePK), c \in { "a", " ", "+", "0" } }
    \cup { PhonePK, PhoneShort }

\* n characters that change with the position.
Pattern(n) == [i \in 1..n |-> << "a", "b", "c", "d", "e", "f", "g" >>[(i % 7) + 1]]

MessageLengths ==
    (0..MaxShort)
    \cup { 160 * k + d : k \in 1..MaxPieces, d \in { -1, 0, 1 } }
    \cup { 350 }
    \cup ((MAX_MESSAGE_LENGTH - MaxOver)..(MAX_MESSAGE_LENGTH + MaxOver))

\* Blank messages, messages of one letter, blank ones with one letter at an
\* end and the reverse, and messages whose characters differ.
MessageInputs ==
    { Repeat(c, n) : c \in { " ", "\t", "a" }, n \in MessageLengths }
    \cup UNION { { [Repeat(c, n) EXCEPT ![i] = d] :
                      c \in { " ", "a" }, d \in { "a", " ", "\n" }, i \in { 1, n } } :
                  n \in MessageLengths \ { 0 } }
    \cup { Pattern(n) : n \in MessageLengths }

MsgHello == << "H", "e", "l", "l", "o" >>

\* The messages the optimizer is called with: plain, long, with urgency
\* words in either case, with characters outside ASCII and outside Latin-1.
PlanMessages ==
    { MsgHello,
      Pattern(161),
      << "U", "R", "G", "E", "N", "T" >>,
      << "a", "s", "a", "p", " ", "u", "r", "g", "e", "n", "t" >>,
      << "E", "m", "e", "r", "g", "e", "n", "c", "y", " ", "a", "s", "a", "p", " ",
         "u", "r", "g", "e", "n", "t", " ", "i", "m", "m", "e", "d", "i", "a", "t", "e", "l", "y" >>,
      << "a", "s", "a", "p", " ", "A", "S", "A", "P", " ", "a", "s", "a", "p" >>,
      << "c", "a", "f", "U+00E9" >>,
      << "U+4E2D", "U+00E9" >> }

\* An address of Pakistan (priority 1.2) and one of the UAE (priority 1,
\* more with an urgent message), and messages that are short, long, urgent.
ScorePhones == { PhonePK, << "+", "9", "7", "1" >> \o Repeat("7", 9) }

ScoreMessages == { MsgHello, Pattern(161), << "U", "R", "G", "E", "N", "T" >> }

\* The texts a user sends in a turn.
TextInputs == { PhonePK, MsgBlank, MsgTooLong }

StartsWith(s, prefix) ==
    /\ Len(s) >= Len(prefix)
    /\ \A i \in 1..Len(prefix) : s[i] = prefix[i]

\* message.trim().length === 0: trim strips whitespace from both ends, so
\* nothing is left exactly when every character is whitespace.
TrimIsEmpty(s) == \A i \in 1..Len(s) : s[i] \in Whitespace

-----------------------------------------------------------------------------
(* Validator.                                                              *)

countryCodes ==
    << << << "+", "9", "2" >>, "PAKISTAN" >>,
       << << "+", "1" >>, "USA" >>,
       << << "+", "4", "4" >>, "UK" >>,
       << << "+", "9", "7", "1" >>, "UAE" >>,
       << << "+", "9", "6", "6" >>, "SAUDI_ARABIA" >>,
       << << "+", "9", "1" >>, "INDIA" >>,
       << << "+", "8", "6" >>, "CHINA" >> >>

\* A lookup that compares the country digit after the "+" and no more.
detectCountryByFirstDigit(phoneNumber) ==
    LET hits == { i \in 1..Len(countryCodes) :
                    StartsWith(phoneNumber, SubSeq(countryCodes[i][1], 1, 2)) }
    IN  IF hits = {} THEN "INTERNATIONAL"
        ELSE countryCodes[CHOOSE i \in hits : \A j \in hits : i <= j][2]

\* The first entry of the table, in its order, that the number starts with.
detectCountry(phoneNumber) ==
    LET hits == { i \in 1..Len(countryCodes) : StartsWith(phoneNumber, countryCodes[i][1]) }
    IN  IF hits = {} THEN "INTERNATIONAL"
        ELSE countryCodes[CHOOSE i \in hits : \A j \in hits : i <= j][2]

\* /^\+[1-9]\d{10,}$/: no upper limit on the digits.
phoneRegexOpenEnded(s) ==
    /\ Len(s) >= 12
    /\ s[1] = "+"
    /\ s[2] \in NonZeroDigits
    /\ \A i \in 3..Len(s) : s[i] \in Digits

\* /^\+[1-9]\d{10,14}$/
phoneRegex(s) ==
    /\ Len(s) >= 12
    /\ Len(s) <= 16
    /\ s[1] = "+"
    /\ s[2] \in NonZeroDigits
    /\ \A i \in 3..Len(s) : s[i] \in Digits

validatePhoneNumber(phoneNumber) ==
    IF ~phoneRegex(phoneNumber)
    THEN [valid |-> FALSE, message |-> "invalid_format", country |-> "UNKNOWN"]
    ELSE [valid |-> TRUE, message |-> "accepted", country |-> detectCountry(phoneNumber)]

\* A length check that rejects the maximum length itself.
validateMessageBelowMax(message) ==
    IF Len(message) = 0 \/ TrimIsEmpty(message)
    THEN [valid |-> FALSE, message |-> "empty"]
    ELSE IF Len(message) >= MAX_MESSAGE_LENGTH
    THEN [valid |-> FALSE, message |-> "too_long"]
    ELSE [valid |-> TRUE, message |-> "accepted"]

validateMessage(message) ==
    IF Len(message) = 0 \/ TrimIsEmpty(message)
    THEN [valid |-> FALSE, message |-> "empty"]
    ELSE IF Len(message) > MAX_MESSAGE_LENGTH
    THEN [valid |-> FALSE, message |-> "too_long"]
    ELSE [valid |-> TRUE, message |-> "accepted"]

\* A loop that stops before a last piece shorter than maxLength.
RECURSIVE splitFullPieces(_, _, _)
splitFullPieces(message, i, maxLength) ==
    IF i + maxLength - 1 > Len(message) THEN << >>
    ELSE << SubSeq(message, i, i + maxLength - 1) >>
         \o splitFullPieces(message, i + maxLength, maxLength)

RECURSIVE splitFrom(_, _, _)
splitFrom(message, i, maxLength) ==
    IF i > Len(message) THEN << >>
    ELSE LET last == IF i + maxLength - 1 < Len(message) THEN i + maxLength - 1
                     ELSE Len(message)
         IN  << SubSeq(message, i, last) >> \o splitFrom(message, i + maxLength, maxLength)

splitMessage(message) == splitFrom(message, 1, 160)

-----------------------------------------------------------------------------
(* Optimizer.  A Number is an integer count of millionths.                 *)

One == 1000000

\* x * y, exact for the factors the code multiplies (at most four decimals).
Times(x, y) == ((x \div 100) * (y \div 100)) \div 100

\* Characters beyond U+00FF and beyond U+007F; a character outside the
\* ASCII range is written by its code point.
NonLatin1 == { "U+4E2D" }
NonASCII == NonLatin1 \cup { "U+00E9" }

\* /[^\u0000-\u00FF]/, then /[^\u0000-\u007F]/
detectEncoding(message) ==
    IF \E i \in 1..Len(message) : message[i] \in NonLatin1 THEN "UNICODE"
    ELSE IF \E i \in 1..Len(message) : message[i] \in NonASCII THEN "GSM_EXTENDED"
    ELSE "GSM_7BIT"

UpperCase == << "A", "B", "C", "D", "E", "F", "G", "H", "I", "J", "K", "L", "M",
                "N", "O", "P", "Q", "R", "S", "T", "U", "V", "W", "X", "Y", "Z" >>

LowerCase == << "a", "b", "c", "d", "e", "f", "g", "h", "i", "j", "k", "l", "m",
                "n", "o", "p", "q", "r", "s", "t", "u", "v", "w", "x", "y", "z" >>

toLowerCase(s) ==
    [ i \in 1..Len(s) |->
        IF \E k \in 1..Len(UpperCase) : UpperCase[k] = s[i]
        THEN LowerCase[CHOOSE k \in 1..Len(UpperCase) : UpperCase[k] = s[i]]
        ELSE s[i] ]

includes(s, word) ==
    \E i \in 0..(Len(s) - Len(word)) : SubSeq(s, i + 1, i + Len(word)) = word

\* table[key] || fallback: the value of an object literal at a key, the
\* fallback when the key is absent (no value of the tables is falsy).
Lookup(table, key, fallback) ==
    IF \E i \in 1..Len(table) : table[i][1] = key
    THEN table[CHOOSE i \in 1..Len(table) : table[i][1] = key][2]
    ELSE fallback

countryPriority ==
    << << "PAKISTAN", 1200000 >>, << "USA", 1100000 >>, << "UAE", 1000000 >>,
       << "SAUDI_ARABIA", 1000000 >>, << "INTERNATIONAL", 900000 >> >>

urgentWords ==
    << << "u", "r", "g", "e", "n", "t" >>,
       << "e", "m", "e", "r", "g", "e", "n", "c", "y" >>,
       << "a", "s", "a", "p" >>,
       << "i", "m", "m", "e", "d", "i", "a", "t", "e", "l", "y" >> >>

\* A loop that multiplies once for every place a word stands at.
RECURSIVE urgencyEveryPlace(_, _, _)
urgencyEveryPlace(priority, lowerMessage, k) ==
    IF k > Len(urgentWords) THEN priority
    ELSE LET places == { i \in 0..(Len(lowerMessage) - Len(urgentWords[k])) :
                           SubSeq(lowerMessage, i + 1, i + Len(urgentWords[k]))
                             = urgentWords[k] }
             RECURSIVE raised(_, _)
             raised(x, n) == IF n = 0 THEN x ELSE raised(Times(x, 1500000), n - 1)
         IN  urgencyEveryPlace(raised(priority, Cardinality(places)), lowerMessage, k + 1)

\* urgentWords.forEach: priority *= 1.5 for every word the message includes.
RECURSIVE urgency(_, _, _)
urgency(priority, lowerMessage, k) ==
    IF k > Len(urgentWords) THEN priority
    ELSE urgency(IF includes(lowerMessage, urgentWords[k])
                 THEN Times(priority, 1500000) ELSE priority,
                 lowerMessage, k + 1)

\* A priority that leaves the country out.
calculatePriorityAnyCountry(phoneNumber, message) ==
    LET urgent == urgency(One, toLowerCase(message), 1)
    IN  IF urgent > 3 * One THEN 3 * One ELSE urgent

calculatePriority(phoneNumber, message) ==
    LET priority == Times(One, Lookup(countryPriority, detectCountry(phoneNumber), One))
        urgent == urgency(priority, toLowerCase(message), 1)
    IN  IF urgent > 3 * One THEN 3 * One ELSE urgent

routes ==
    << << "PAKISTAN", "QUANTUM_PAKISTAN_HUB" >>, << "USA", "SATELLITE_US_NET" >>,
       << "UAE", "MIDDLE_EAST_HUB" >>, << "SAUDI_ARABIA", "ARABIAN_NETWORK" >>,
       << "INTERNATIONAL", "GLOBAL_AI_ROUTING" >> >>

calculateBestRoute(phoneNumber) ==
    Lookup(routes, detectCountry(phoneNumber), "DEFAULT_AI_ROUTE")

countryProbabilities ==
    << << "PAKISTAN", 950000 >>, << "USA", 900000 >>, << "UAE", 920000 >>,
       << "SAUDI_ARABIA", 910000 >>, << "INTERNATIONAL", 800000 >> >>

\* A probability whose table lookup falls back on 1.
calculateSuccessProbabilityFallbackOne(phoneNumber) ==
    LET probability ==
            Times(850000, Lookup(countryProbabilities, detectCountry(phoneNumber), One))
            + 100000
    IN  IF probability > 990000 THEN 990000 ELSE probability

calculateSuccessProbability(phoneNumber) ==
    LET probability ==
            Times(850000, Lookup(countryProbabilities, detectCountry(phoneNumber), 850000))
            + 100000
    IN  IF probability > 990000 THEN 990000 ELSE probability

TRANSMISSION_METHODS ==
    << "QUANTUM_TUNNELING", "VIRTUAL_GSM_SIMULATION", "AI_OPTIMIZED_ROUTING",
       "DIRECT_SOCKET_CONNECTION", "WAVE_FUNCTION_TRANSMISSION" >>

\* x + y in double arithmetic.  The sums the code forms of its constants are
\* the doubles nearest to the decimal sums, but 0.7 + 0.2, which is the
\* double just below 0.9 (0.8999999999999999): here one millionth below.
Plus(x, y) == IF x = 700000 /\ y = 200000 THEN 899999 ELSE x + y

\* Math.random() * 0.2 - 0.1 for a value random of Math.random().  (The
\* doubles next to 1 give 0.1 exactly, which random = One stands for.)
Jitter(random) == Times(random, 200000) - 100000

\* The sum of a score before the random factor is added.
RawScore(method, o) ==
    LET base == 500000
    IN  CASE method = "QUANTUM_TUNNELING" ->
               LET score == Plus(base, 300000)
               IN  IF o.country = "PAKISTAN" THEN Plus(score, 100000) ELSE score
          [] method = "VIRTUAL_GSM_SIMULATION" ->
               LET score == Plus(base, 250000)
               IN  IF o.messageLength > 160 THEN Plus(score, 150000) ELSE score
          [] method = "AI_OPTIMIZED_ROUTING" ->
               LET score == Plus(base, 200000)
               IN  IF o.priority > One THEN Plus(score, 200000) ELSE score
          [] method = "DIRECT_SOCKET_CONNECTION" -> Plus(base, 150000)
          [] method = "WAVE_FUNCTION_TRANSMISSION" -> Plus(base, 400000)
          [] OTHER -> base

\* A score with a random factor ten times as wide and no clamping.
scoreWideUnclamped(method, o, random) ==
    RawScore(method, o) + 10 * Jitter(random)

\* scoreTransmissionMethod, random being what its Math.random() returns.
scoreTransmissionMethod(method, o, random) ==
    LET score == RawScore(method, o) + Jitter(random)
        atLeast == IF score < 0 THEN 0 ELSE score
    IN  IF atLeast > One THEN One ELSE atLeast

\* A reduce that lets a later method of equal score win.
RECURSIVE reduceLatest(_, _, _)
reduceLatest(scores, i, best) ==
    IF i > Len(scores) THEN best
    ELSE reduceLatest(scores, i + 1,
                      IF scores[i].score >= best.score THEN scores[i] ELSE best)

\* scores.reduce((best, current) => current.score > best.score ? current : best)
RECURSIVE reduce(_, _, _)
reduce(scores, i, best) ==
    IF i > Len(scores) THEN best
    ELSE reduce(scores, i + 1,
                IF scores[i].score > best.score THEN scores[i] ELSE best)

\* selectBestTransmissionMethod, randoms[i] being what Math.random() returns
\* in the scoring of the i-th method.
selectBestTransmissionMethod(o, randoms) ==
    LET scores == [ i \in 1..Len(TRANSMISSION_METHODS) |->
                      [ method |-> TRANSMISSION_METHODS[i],
                        score |-> scoreTransmissionMethod(TRANSMISSION_METHODS[i], o,
                                                          randoms[i]) ] ]
    IN  reduce(scores, 2, scores[1]).method

\* The profile optimizeTransmission returns for an address and a message
\* (transmissionWindow, which only the hour of the day decides, left out).
optimization(phoneNumber, message) ==
    [ phoneNumber |-> phoneNumber,
      country |-> detectCountry(phoneNumber),
      messageLength |-> Len(message),
      parts |-> Len(splitMessage(message)),
      encoding |-> detectEncoding(message),
      priority |-> calculatePriority(phoneNumber, message),
      bestRoute |-> calculateBestRoute(phoneNumber),
      successProbability |-> calculateSuccessProbability(phoneNumber) ]

-----------------------------------------------------------------------------
(* Transmission executor.                                                  *)

\* The outcome of a stage: it returns, or it throws a TypeError.
Returned == [threw |-> FALSE, error |-> "none"]

Threw(what) == [threw |-> TRUE, error |-> what]

\* optimizeTransmission builds the profile field by field: detectCountry reads
\* phoneNumber.startsWith first, message.length next.
optimizeTransmission(phoneNumber, message) ==
    IF phoneNumber = Undefined
    THEN Threw("Cannot read properties of undefined (reading 'startsWith')")
    ELSE IF message = Undefined
    THEN Threw("Cannot read properties of undefined (reading 'length')")
    ELSE Returned

\* applyQuantumEncryption: calculateHash reads data.length.
applyQuantumEncryption(message) ==
    IF message = Undefined
    THEN Threw("Cannot read properties of undefined (reading 'length')")
    ELSE Returned

\* transmitSMS after its latency wait: simulateNetwork reads phoneNumber.startsWith.
transmitSMS(phoneNumber) ==
    IF phoneNumber = Undefined
    THEN Threw("Cannot read properties of undefined (reading 'startsWith')")
    ELSE Returned

\* The first stage of the try block that throws, or Returned.
FirstFault(phoneNumber, message) ==
    LET o == optimizeTransmission(phoneNumber, message)
        e == applyQuantumEncryption(message)
        t == transmitSMS(phoneNumber)
    IN  IF o.threw THEN o ELSE IF e.threw THEN e ELSE t

\* processSMSTransmission reaches the latency wait of transmitSMS (its only
\* suspension) when nothing before it threw; otherwise it completes at once.
Suspends(phoneNumber, message) ==
    /\ ~optimizeTransmission(phoneNumber, message).threw
    /\ ~applyQuantumEncryption(message).threw

FailureResult(transmissionId, phoneNumber, error) ==
    [ kind |-> "return", success |-> FALSE, transmissionId |-> transmissionId,
      phoneNumber |-> phoneNumber, status |-> "FAILED", method |-> "FAILED",
      error |-> error ]

DeliveredResult(transmissionId, phoneNumber) ==
    [ kind |-> "return", success |-> TRUE, transmissionId |-> transmissionId,
      phoneNumber |-> phoneNumber, status |-> "DELIVERED", method |-> "SELECTED",
      error |-> "none" ]

Escalated(transmissionId, phoneNumber, error) ==
    [ kind |-> "throw", success |-> FALSE, transmissionId |-> transmissionId,
      phoneNumber |-> phoneNumber, status |-> "none", method |-> "none",
      error |-> error ]

\* processSMSTransmission without its try/catch.
processSMSTransmissionNoCatch(phoneNumber, message, transmissionId) ==
    LET fault == FirstFault(phoneNumber, message)
    IN  IF fault.threw
        THEN Escalated(transmissionId, phoneNumber, fault.error)
        ELSE DeliveredResult(transmissionId, phoneNumber)

\* try { optimize; select; encrypt; transmit; return DELIVERED }
\* catch (error) { return FAILED with error.message }
processSMSTransmission(phoneNumber, message, transmissionId) ==
    LET fault == FirstFault(phoneNumber, message)
    IN  IF fault.threw
        THEN FailureResult(transmissionId, phoneNumber, fault.error)
        ELSE DeliveredResult(transmissionId, phoneNumber)

NoResult ==
    [ kind |-> "none", success |-> FALSE, transmissionId |-> << >>,
      phoneNumber |-> Undefined, status |-> "none", method |-> "none",
      error |-> "none" ]

-----------------------------------------------------------------------------
(* Session manager.                                                        *)
(*                                                                         *)
(* reply is what the last turn produced: "prompt" for a prompt or an       *)
(* acknowledgement, "validation_error" for a rejected input, "none" when    *)
(* the handler returned silently, "handler_error" when it threw (bot.catch *)
(* answers), "cancelled" for the answer to cancel, and the outcome         *)
(* messages of sendSMS.                                                    *)

\* Besides the fields of the code a session carries touched, the time of the
\* user's last turn on it (its start or a text), which the code does not keep.
NoSession ==
    [ step |-> "none", mode |-> "none", phoneNumber |-> Undefined,
      country |-> NoCountry, message |-> Undefined, messageParts |-> NoParts,
      timestamp |-> 0, touched |-> 0 ]

\* {step, mode, data: {}, timestamp: Date.now()}
NewSession(step, mode) ==
    [ step |-> step, mode |-> mode, phoneNumber |-> Undefined,
      country |-> NoCountry, message |-> Undefined, messageParts |-> NoParts,
      timestamp |-> now, touched |-> now ]

DataOf(session) == [phoneNumber |-> session.phoneNumber, message |-> session.message]

\* A removal from the map that also ends the invocations holding the object.
DetachAndAbort(snds, u) ==
    [ k \in 1..Len(snds) |->
        IF snds[k].user = u /\ snds[k].live
        THEN [snds[k] EXCEPT !.live = FALSE, !.held = DataOf(userSessions[u]),
                             !.pc = "done"]
        ELSE snds[k] ]

\* A sendSMS invocation holds the session object it read from the map.  While
\* that object is the user's entry of the map (live) it sees every later
\* write; once the entry is replaced or deleted no handler can reach the
\* object any more, so the invocation keeps the data the object had then.
Detach(snds, u) ==
    [ k \in 1..Len(snds) |->
        IF snds[k].user = u /\ snds[k].live
        THEN [snds[k] EXCEPT !.live = FALSE, !.held = DataOf(userSessions[u])]
        ELSE snds[k] ]

\* session.data as the invocation sees it now.
HeldData(snd) == IF snd.live THEN DataOf(userSessions[snd.user]) ELSE snd.held

\* A flow start that keeps the object the user has and sets step and mode.
StartFlowKeepsData(u, step, mode) ==
    /\ userSessions' = [userSessions EXCEPT ![u] =
           IF @ = NoSession THEN NewSession(step, mode)
           ELSE [@ EXCEPT !.step = step, !.mode = mode, !.touched = now]]
    /\ sends' = sends
    /\ reply' = "prompt"
    /\ UNCHANGED << callVars, bootVars, systemStats, smsLogs, detailFiles, notified, queueVars, monitorVars >>

\* this.userSessions.set(userId, {step, mode, data: {}, timestamp})
StartFlow(u, step, mode) ==
    /\ userSessions' = [userSessions EXCEPT ![u] = NewSession(step, mode)]
    /\ sends' = Detach(sends, u)
    /\ reply' = "prompt"
    /\ UNCHANGED << callVars, bootVars, systemStats, smsLogs, detailFiles, notified, queueVars, monitorVars >>

initiateSingleSMS(u) == StartFlow(u, "awaiting_number", "SINGLE")

initiateBulkSMS(u) == StartFlow(u, "awaiting_bulk_numbers", "BULK")

initiateScheduleSMS(u) == StartFlow(u, "awaiting_schedule_time", "SCHEDULED")

\* processPhoneNumber without the return that follows the error reply.
processPhoneNumberNoReturn(session, phoneNumber) ==
    LET validation == validatePhoneNumber(phoneNumber)
    IN  [ session |-> [session EXCEPT !.phoneNumber = phoneNumber,
                                      !.country = validation.country,
                                      !.step = "awaiting_message"],
          reply |-> IF validation.valid THEN "prompt" ELSE "validation_error" ]

\* The session after processPhoneNumber, and the reply it sends.
processPhoneNumber(session, phoneNumber) ==
    LET validation == validatePhoneNumber(phoneNumber)
    IN  IF ~validation.valid
        THEN [ session |-> session, reply |-> "validation_error" ]
        ELSE [ session |-> [session EXCEPT !.phoneNumber = phoneNumber,
                                           !.country = validation.country,
                                           !.step = "awaiting_message"],
               reply |-> "prompt" ]

\* The session after processMessage, and the reply it sends.
processMessage(session, message) ==
    LET validation == validateMessage(message)
    IN  IF ~validation.valid
        THEN [ session |-> session, reply |-> "validation_error" ]
        ELSE [ session |-> [session EXCEPT !.message = message,
                                           !.messageParts = splitMessage(message),
                                           !.step = "confirm_send"],
               reply |-> "prompt" ]

\* The class defines none of processBulkNumbers, processBulkMessages,
\* processScheduleTime, processScheduleMessage: calling one is a TypeError,
\* which bot.catch reports.
UndefinedMethodSteps ==
    { "awaiting_bulk_numbers", "awaiting_bulk_messages",
      "awaiting_schedule_time", "awaiting_schedule_message" }

handleTextMessage(u, text) ==
    LET session == userSessions[u]
        out == CASE session.step = "awaiting_number" -> processPhoneNumber(session, text)
                 [] session.step = "awaiting_message" -> processMessage(session, text)
                 [] session.step \in UndefinedMethodSteps ->
                        [ session |-> session, reply |-> "handler_error" ]
                 [] OTHER -> [ session |-> session, reply |-> "none" ]
    IN  /\ reply' = out.reply
        /\ userSessions' = [userSessions EXCEPT ![u] =
               IF session = NoSession THEN session
               ELSE [out.session EXCEPT !.touched = now]]
        /\ UNCHANGED << callVars, bootVars, sendVars, queueVars, monitorVars >>

\* The callback actions other than send_immediate.
EditActions == { "edit_message", "change_number", "manual_bulk" }

ReplyOnlyActions ==
    { "country_92", "country_1", "country_971", "country_966", "country_all",
      "show_templates", "upload_bulk" }

\* scheduleSMS, showCalendar and scheduleIn5Minutes are not defined either.
UndefinedMethodActions == { "send_schedule", "show_calendar", "schedule_5min" }

CallbackActions == EditActions \cup ReplyOnlyActions \cup UndefinedMethodActions \cup { "cancel" }

\* The buttons pressed in a turn: the edit buttons, cancel, and one button of
\* each family whose members run the same code.
CallbackInputs == EditActions \cup { "cancel", "country_92", "send_schedule" }

EditTarget(action) ==
    CASE action = "edit_message" -> "awaiting_message"
      [] action = "change_number" -> "awaiting_number"
      [] action = "manual_bulk" -> "awaiting_bulk_numbers"

\* this.userSessions.clear() in place of delete(userId).
deleteEverySession(sessions, u) == [v \in Users |-> NoSession]

\* this.userSessions.delete(userId)
deleteSession(sessions, u) == [sessions EXCEPT ![u] = NoSession]

\* handleCallbackQuery after its await of answerCbQuery, for every action but
\* send_immediate.  this.userSessions.get(userId).step = ... throws when the
\* user has no session.
handleCallbackQuery(u, action) ==
    /\ action \in CallbackActions
    /\ IF action \in EditActions
       THEN IF userSessions[u] = NoSession
            THEN /\ reply' = "handler_error"
                 /\ UNCHANGED << userSessions, sends >>
            ELSE /\ reply' = "prompt"
                 /\ userSessions' = [userSessions EXCEPT ![u].step = EditTarget(action)]
                 /\ UNCHANGED sends
       ELSE IF action = "cancel"
       THEN /\ reply' = "cancelled"
            /\ userSessions' = deleteSession(userSessions, u)
            /\ sends' = Detach(sends, u)
       ELSE /\ reply' = IF action \in UndefinedMethodActions THEN "handler_error" ELSE "prompt"
            /\ UNCHANGED << userSessions, sends >>
    /\ UNCHANGED << callVars, bootVars, systemStats, smsLogs, detailFiles, notified, queueVars, monitorVars >>

-----------------------------------------------------------------------------
(* Interactive send and its retry.                                         *)

\* sendSMS lines 515-521 with totalSMS left alone.
UpdateStatsNoTotal(stats, success) ==
    IF success
    THEN [stats EXCEPT !.successful = @ + 1]
    ELSE [stats EXCEPT !.failed = @ + 1]

\* A failed counter that a success takes one from.
UpdateStatsNetFailures(stats, success) ==
    IF success
    THEN [stats EXCEPT !.totalSMS = @ + 1, !.successful = @ + 1, !.failed = @ - 1]
    ELSE [stats EXCEPT !.totalSMS = @ + 1, !.failed = @ + 1]

\* this.systemStats.totalSMS++; then successful++ or failed++.
UpdateStats(stats, success) ==
    IF success
    THEN [stats EXCEPT !.totalSMS = @ + 1, !.successful = @ + 1]
    ELSE [stats EXCEPT !.totalSMS = @ + 1, !.failed = @ + 1]

\* successful++, failed-- without the test of result.success.
RetryStatsUnconditional(stats, success) ==
    [stats EXCEPT !.successful = @ + 1, !.failed = @ - 1]

\* retryTransmission on a successful result: successful++, failed--.
RetryStats(stats, success) ==
    IF success
    THEN [stats EXCEPT !.successful = @ + 1, !.failed = @ - 1]
    ELSE stats

\* The retry timer armed whatever the result.
ScheduleRetryAlways(result) == TRUE

\* sendSMS arms the retry timer in the else branch of if (result.success).
ScheduleRetry(result) == ~result.success

TRANSMISSION_LOG_CAP == 10000

\* slice(0, cap) in place of slice(-cap): the newest entry is the one dropped.
AppendCappedOldest(log, entry, cap) ==
    LET all == Append(log, entry)
    IN  IF Len(all) > cap THEN SubSeq(all, 1, cap) ELSE all

\* logs.push(entry); if (logs.length > cap) logs = logs.slice(-cap)
AppendCapped(log, entry, cap) ==
    LET all == Append(log, entry)
    IN  IF Len(all) > cap THEN SubSeq(all, Len(all) - cap + 1, Len(all)) ELSE all

LogEntry(result) ==
    [ transmissionId |-> result.transmissionId, phoneNumber |-> result.phoneNumber,
      success |-> result.success, method |-> result.method ]

NoData == [phoneNumber |-> Undefined, message |-> Undefined]

\* `TX_${Date.now()}_${random}`: a fresh id for every call of
\* processSMSTransmission, here the caller and the number of its attempt.
SendTxId(k, attempt) == << "send", k, attempt >>

QueueTxId(id) == << "queue", id >>

NoTxId == << >>

\* A sendSMS invocation: whose it is, the session object it holds (live/held),
\* where it stands (pc), the arguments and the id of the transmission it
\* awaits, and what has happened to its request so far.
NewSend(u) ==
    [ user |-> u, live |-> TRUE, held |-> NoData, pc |-> "processing",
      phoneNumber |-> Undefined, message |-> Undefined, transmissionId |-> NoTxId,
      first |-> "none", retry |-> "none", attempts |-> 0, retriesScheduled |-> 0 ]

\* A finished invocation keeps its history and lets go of what it held.
Finished(snd) ==
    [snd EXCEPT !.pc = "done", !.live = FALSE, !.held = NoData,
                !.phoneNumber = Undefined, !.message = Undefined,
                !.transmissionId = NoTxId]

\* send_immediate: sendSMS up to its await of editMessageText.  It reads the
\* user's session whatever its step, and returns at once when there is none.
sendSMS(u, cap) ==
    /\ Len(sends) < cap
    /\ IF userSessions[u] = NoSession
       THEN /\ reply' = "session_expired"
            /\ UNCHANGED sends
       ELSE /\ reply' = "prompt"
            /\ sends' = Append(sends, NewSend(u))
    /\ UNCHANGED << callVars, bootVars, userSessions, systemStats, smsLogs, detailFiles, notified, queueVars,
                    monitorVars >>

\* sendSMS from the result of processSMSTransmission to its end.  A thrown
\* error goes to the catch block: nothing but a message and a recovery timer
\* that only prints.  Otherwise: the counters, the retry timer on a failure,
\* this.userSessions.delete(userId), logTransmission(result).
FinishSend(k, result, snd) ==
    IF result.kind = "throw"
    THEN /\ sends' = [sends EXCEPT ![k] = Finished([snd EXCEPT !.first = "threw"])]
         /\ reply' = "critical_error"
         /\ notified' = notified \cup { result.transmissionId }
         /\ UNCHANGED << userSessions, systemStats, smsLogs, detailFiles >>
    ELSE /\ systemStats' = UpdateStats(systemStats, result.success)
         /\ sends' = [ Detach([sends EXCEPT ![k] = snd], snd.user) EXCEPT ![k] =
                LET seen == [@ EXCEPT !.first = IF result.success THEN "ok" ELSE "fail"]
                IN  IF ScheduleRetry(result)
                    THEN [seen EXCEPT !.pc = "retry_wait", !.retriesScheduled = @ + 1]
                    ELSE Finished(seen) ]
         /\ reply' = IF result.success THEN "transmission_successful" ELSE "requires_retry"
         /\ notified' = notified \cup { result.transmissionId }
         /\ userSessions' = [userSessions EXCEPT ![snd.user] = NoSession]
         /\ detailFiles' = detailFiles \cup { result.transmissionId }
         /\ smsLogs' = AppendCapped(smsLogs, LogEntry(result), TRANSMISSION_LOG_CAP)

\* sendSMS resumes after editMessageText: it reads the address and the message
\* from the session object it holds and calls processSMSTransmission, which
\* either completes at once (a stage threw) or waits for the latency timer.
sendSMSTransmit(k) ==
    /\ k \in 1..Len(sends)
    /\ sends[k].pc = "processing"
    /\ LET data == HeldData(sends[k])
           snd == [sends[k] EXCEPT !.attempts = @ + 1,
                                   !.phoneNumber = data.phoneNumber,
                                   !.message = data.message,
                                   !.transmissionId = SendTxId(k, sends[k].attempts + 1)]
       IN  /\ IF Suspends(data.phoneNumber, data.message)
              THEN /\ sends' = [sends EXCEPT ![k] = [snd EXCEPT !.pc = "transmitting"]]
                   /\ UNCHANGED << userSessions, systemStats, smsLogs, detailFiles, notified, reply >>
              ELSE FinishSend(k, processSMSTransmission(data.phoneNumber, data.message,
                                                        snd.transmissionId), snd)
    /\ UNCHANGED << callVars, bootVars, queueVars, monitorVars >>

\* if (retryResult.success) ctx.reply(...): the timer callback tells the user
\* of a retry that succeeded, and of no other.
RetryReported(result) == result.kind = "return" /\ result.success

\* retryTransmission from the result of processSMSTransmission on: a success
\* moves one count from failed to successful and is announced; a failure is
\* returned to the timer callback, which drops it; a throw is logged and
\* rethrown.  Nothing is scheduled again.
FinishRetry(k, result, snd) ==
    /\ sends' = [sends EXCEPT ![k] =
           Finished([snd EXCEPT !.retry = IF result.kind = "throw" THEN "threw"
                                          ELSE IF result.success THEN "ok" ELSE "fail"])]
    /\ systemStats' = IF result.kind = "throw" THEN systemStats
                      ELSE RetryStats(systemStats, result.success)
    /\ reply' = IF result.kind = "return" /\ result.success
                THEN "auto_recovery_successful" ELSE reply
    /\ notified' = IF RetryReported(result)
                   THEN notified \cup { result.transmissionId } ELSE notified
    /\ UNCHANGED << userSessions, smsLogs, detailFiles >>

\* The 3000 ms timer fires: retryTransmission(session.data).
retryTransmission(k) ==
    /\ k \in 1..Len(sends)
    /\ sends[k].pc = "retry_wait"
    /\ LET data == HeldData(sends[k])
           snd == [sends[k] EXCEPT !.attempts = @ + 1,
                                   !.phoneNumber = data.phoneNumber,
                                   !.message = data.message,
                                   !.transmissionId = SendTxId(k, sends[k].attempts + 1)]
       IN  /\ IF Suspends(data.phoneNumber, data.message)
              THEN /\ sends' = [sends EXCEPT ![k] = [snd EXCEPT !.pc = "retry_transmitting"]]
                   /\ UNCHANGED << userSessions, systemStats, smsLogs, detailFiles, notified, reply >>
              ELSE FinishRetry(k, processSMSTransmission(data.phoneNumber, data.message,
                                                         snd.transmissionId), snd)
    /\ UNCHANGED << callVars, bootVars, queueVars, monitorVars >>

\* The latency timer of transmitSMS fires for an interactive transmission:
\* processSMSTransmission returns to whoever awaits it, sendSMS (first
\* attempt) or retryTransmission.
transmitSMSTimer(k) ==
    /\ k \in 1..Len(sends)
    /\ sends[k].pc \in { "transmitting", "retry_transmitting" }
    /\ LET result == processSMSTransmission(sends[k].phoneNumber, sends[k].message,
                                            sends[k].transmissionId)
       IN  IF sends[k].pc = "transmitting"
           THEN FinishSend(k, result, sends[k])
           ELSE FinishRetry(k, result, sends[k])
    /\ UNCHANGED << callVars, bootVars, queueVars, monitorVars >>

-----------------------------------------------------------------------------
(* Queue drain.                                                            *)

BATCH_SIZE == 10

\* What producers push: the n-th request lacks both fields when n is a
\* multiple of 7, else its address when n is a multiple of 3, else its
\* message when n is a multiple of 5, and is complete otherwise.
Payload(n) ==
    IF n % 7 = 0 THEN [phoneNumber |-> Undefined, message |-> Undefined]
    ELSE IF n % 3 = 0 THEN [phoneNumber |-> Undefined, message |-> MsgHi]
    ELSE IF n % 5 = 0 THEN [phoneNumber |-> PhonePK, message |-> Undefined]
    ELSE [phoneNumber |-> PhonePK, message |-> MsgHi]

\* A producer pushes a request on this.transmissionQueue.
Enqueue(cap) ==
    /\ Len(queued) < cap
    /\ LET n == Len(queued) + 1
           r == [id |-> n, phoneNumber |-> Payload(n).phoneNumber,
                 message |-> Payload(n).message]
       IN  /\ queued' = Append(queued, r)
           /\ transmissionQueue' = Append(transmissionQueue, r)
           /\ attempted' = Append(attempted, NoResult)
    /\ sinceArrival' = [backlog |-> Len(transmissionQueue'), ticks |-> 0]
    /\ UNCHANGED << callVars, bootVars, userSessions, sendVars, reply, batches, ticks, monitorVars >>

\* A loop that stops at the first request that fails.
ContinueAfterSuccessOnly(result) == result.kind = "return" /\ result.success

\* for (const transmission of batch) { try { await ... } catch { log } }: the
\* loop goes on to the next request whatever the transmission returned or threw.
ContinueAfter(result) == TRUE

\* The loop of processTransmissionQueue from item i on, up to its next
\* suspension: requests whose transmission completes at once are done in the
\* same turn; the first one that reaches the latency wait suspends the loop
\* (pos), and pos = 0 when the loop has ended.
RECURSIVE RunBatch(_, _, _)
RunBatch(items, i, att) ==
    IF i > Len(items)
    THEN [pos |-> 0, attempted |-> att]
    ELSE IF Suspends(items[i].phoneNumber, items[i].message)
    THEN [pos |-> i, attempted |-> att]
    ELSE LET result == processSMSTransmission(items[i].phoneNumber, items[i].message,
                                              QueueTxId(items[i].id))
             done == [att EXCEPT ![items[i].id] = result]
         IN  IF ContinueAfter(result)
             THEN RunBatch(items, i + 1, done)
             ELSE [pos |-> 0, attempted |-> done]

\* splice(0) in place of splice(0, n): everything is removed.
spliceAll(queue, n) == [batch |-> queue, rest |-> << >>]

\* splice(-n) in place of splice(0, n): the newest n are removed.
spliceNewest(queue, n) ==
    LET k == IF Len(queue) < n THEN Len(queue) ELSE n
    IN  [batch |-> SubSeq(queue, Len(queue) - k + 1, Len(queue)),
         rest |-> SubSeq(queue, 1, Len(queue) - k)]

\* this.transmissionQueue.splice(0, n): the removed head and what stays.
splice(queue, n) ==
    LET k == IF Len(queue) < n THEN Len(queue) ELSE n
    IN  [batch |-> SubSeq(queue, 1, k), rest |-> SubSeq(queue, k + 1, Len(queue))]

\* A tick of the 1000 ms interval: processTransmissionQueue.  With an empty
\* queue it returns at once (no step); nothing makes it wait for a batch
\* that an earlier tick left suspended.
processTransmissionQueue(cap) ==
    /\ Len(transmissionQueue) # 0
    /\ ticks < cap
    /\ LET cut == splice(transmissionQueue, BATCH_SIZE)
           run == RunBatch(cut.batch, 1, attempted)
       IN  /\ transmissionQueue' = cut.rest
           /\ attempted' = run.attempted
           /\ batches' = IF run.pos = 0 THEN batches
                         ELSE batches \cup { [items |-> cut.batch, pos |-> run.pos] }
    /\ ticks' = ticks + 1
    /\ sinceArrival' = [sinceArrival EXCEPT !.ticks = @ + 1]
    /\ UNCHANGED << callVars, bootVars, userSessions, sendVars, reply, queued, monitorVars >>

\* The latency timer of transmitSMS fires for the request a drain loop waits
\* on; the loop records the outcome and goes on.
drainTimer(b) ==
    /\ b \in batches
    /\ LET item == b.items[b.pos]
           result == processSMSTransmission(item.phoneNumber, item.message,
                                            QueueTxId(item.id))
           done == [attempted EXCEPT ![item.id] = result]
           run == IF ContinueAfter(result)
                  THEN RunBatch(b.items, b.pos + 1, done)
                  ELSE [pos |-> 0, attempted |-> done]
       IN  /\ attempted' = run.attempted
           /\ batches' = IF run.pos = 0 THEN batches \ { b }
                         ELSE (batches \ { b }) \cup { [b EXCEPT !.pos = run.pos] }
    /\ UNCHANGED << callVars, bootVars, userSessions, sendVars, reply, transmissionQueue, queued, ticks,
                    sinceArrival, monitorVars >>

-----------------------------------------------------------------------------
(* Maintenance: the one-minute interval of startMonitoring.                *)

\* now - session.timestamp > 300000: five minutes.
SESSION_TTL == 5

HEALTH_LOG_CAP == 1000

\* The users whose session cleanupOldSessions deletes at time t.
Expired(t) ==
    { u \in Users : userSessions[u] # NoSession /\ t - userSessions[u].timestamp > SESSION_TTL }

\* Detach for every user of a set.
DetachUsers(snds, US) ==
    [ k \in 1..Len(snds) |->
        IF snds[k].user \in US /\ snds[k].live
        THEN [snds[k] EXCEPT !.live = FALSE, !.held = DataOf(userSessions[snds[k].user])]
        ELSE snds[k] ]

\* The map after cleanupOldSessions at time t.
cleanupOldSessions(t) ==
    [ u \in Users |-> IF u \in Expired(t) THEN NoSession ELSE userSessions[u] ]

\* The sample checkSystemHealth takes (memory and uptime left out).
HealthSample(sessions, t) ==
    [ sessions |-> Cardinality({ u \in Users : sessions[u] # NoSession }),
      queue |-> Len(transmissionQueue), timestamp |-> t ]

\* The interval fires, a minute after the last time: cleanupOldSessions,
\* backupSystem (copies of the data files, which nothing here reads) and
\* checkSystemHealth, in this order.
monitoringInterval(maxClock) ==
    /\ now < maxClock
    /\ now' = now + 1
    /\ userSessions' = cleanupOldSessions(now')
    /\ sends' = DetachUsers(sends, Expired(now'))
    /\ healthLog' = AppendCapped(healthLog, HealthSample(userSessions', now'), HEALTH_LOG_CAP)
    /\ UNCHANGED << callVars, bootVars, systemStats, smsLogs, detailFiles, notified, reply, queueVars >>

-----------------------------------------------------------------------------
(* Specifications.                                                         *)

\* initialize() has run to its end: the bot is launched, the three intervals
\* are started, nothing is pending.
Operational ==
    /\ systemStatus = "OPERATIONAL"
    /\ initPc = "idle"
    /\ initializations = 1
    /\ timers = [restart |-> 0, recovery |-> 0, drain |-> 1, monitor |-> 1, ai |-> 1]
    /\ exitStatus = NotExited
    /\ token = TRUE
    /\ request = NoRequest
    /\ answer = NoAnswer

Init ==
    /\ userSessions = [u \in Users |-> NoSession]
    /\ systemStats = [totalSMS |-> 0, successful |-> 0, failed |-> 0]
    /\ sends = << >>
    /\ smsLogs = << >>
    /\ detailFiles = {}
    /\ reply = "none"
    /\ transmissionQueue = << >>
    /\ batches = {}
    /\ queued = << >>
    /\ attempted = << >>
    /\ ticks = 0
    /\ sinceArrival = [backlog |-> 0, ticks |-> 0]
    /\ now = 0
    /\ healthLog = << >>
    /\ notified = {}
    /\ Operational

\* The turns of the users US: flow starts, texts, buttons.
Turns(US, texts, actions) ==
    \/ \E u \in US : initiateSingleSMS(u)
    \/ \E u \in US : initiateBulkSMS(u)
    \/ \E u \in US : initiateScheduleSMS(u)
    \/ \E u \in US, text \in texts : handleTextMessage(u, text)
    \/ \E u \in US, action \in actions : handleCallbackQuery(u, action)

\* The interactive sends of the users US and their timers.
Sends(US, cap) ==
    \/ \E u \in US : sendSMS(u, cap)
    \/ \E k \in 1..Len(sends) : sendSMSTransmit(k)
    \/ \E k \in 1..Len(sends) : retryTransmission(k)
    \/ \E k \in 1..Len(sends) : transmitSMSTimer(k)

\* One user's conversation with every input, and the sends it confirms.
Next == Turns(Soloist, TextInputs, CallbackInputs) \/ Sends(Soloist, MaxSends)

Spec == Init /\ [][Next]_vars

\* The transmission queue alone: producers, drain ticks, latency timers.
QueueNext ==
    \/ Enqueue(MaxRequests)
    \/ processTransmissionQueue(MaxTicks)
    \/ \E b \in batches : drainTimer(b)

QueueSpec == Init /\ [][QueueNext]_vars

\* Timers that are armed do fire.
QueueFairSpec ==
    /\ QueueSpec
    /\ WF_vars(processTransmissionQueue(MaxTicks))
    /\ WF_vars(\E b \in batches : drainTimer(b))

\* Two users in the single-send flow, their sends and retries, and the queue
\* drain, interleaved.
MixedNext ==
    \/ \E u \in Users : initiateSingleSMS(u)
    \/ \E u \in Users : handleTextMessage(u, PhonePK)
    \/ Sends(Users, MixSends)
    \/ Enqueue(MixRequests)
    \/ processTransmissionQueue(MixTicks)
    \/ \E b \in batches : drainTimer(b)

MixedSpec == Init /\ [][MixedNext]_vars

\* The conversations of two users, without sends.
SessionNext == Turns(Users, { PhonePK, MsgHi, MsgBlank, ScheduleTime }, CallbackInputs)

SessionSpec == Init /\ [][SessionNext]_vars

\* Conversations over the minutes, with the maintenance interval.
MaintNext ==
    \/ \E u \in Users : initiateSingleSMS(u)
    \/ \E u \in Users, text \in { PhonePK, MsgBlank } : handleTextMessage(u, text)
    \/ monitoringInterval(MaxClock)

MaintSpec == Init /\ [][MaintNext]_vars

\* Flow starts of two users, over sessions old and new.
FlowNext ==
    \/ \E u \in Users : initiateSingleSMS(u)
    \/ \E u \in Users : initiateBulkSMS(u)
    \/ \E u \in Users : initiateScheduleSMS(u)
    \/ \E u \in Users : handleTextMessage(u, PhonePK)
    \/ monitoringInterval(FlowClock)

FlowSpec == Init /\ [][FlowNext]_vars

-----------------------------------------------------------------------------
(* Initialization and recovery.                                            *)

\* emergencyRecovery: the status becomes EMERGENCY and a 10 s timer is armed
\* that will call initialize() again.
emergencyRecovery ==
    /\ systemStatus' = "EMERGENCY"
    /\ timers' = [timers EXCEPT !.restart = @ + 1]
    /\ initPc' = "idle"
    /\ UNCHANGED << initializations, exitStatus, token >>

\* An initialize() whose startTelegramBot does not look at the token.
initializeAnyToken(fault) ==
    /\ initPc = "start"
    /\ exitStatus = NotExited
    /\ IF fault
       THEN emergencyRecovery
       ELSE /\ initPc' = "launching"
            /\ UNCHANGED << systemStatus, initializations, timers, exitStatus, token >>
    /\ UNCHANGED << callVars, userSessions, sendVars, reply, queueVars, monitorVars >>

\* initialize() from its start to the await of bot.launch(): createDirectories
\* and initDatabase write to the file system and may throw (fault), which
\* the catch block hands to emergencyRecovery; startTelegramBot ends the
\* process with status 1 when the token is not set.
initialize(fault) ==
    /\ initPc = "start"
    /\ exitStatus = NotExited
    /\ IF fault
       THEN emergencyRecovery
       ELSE IF ~token
       THEN /\ exitStatus' = Exited(1)
            /\ initPc' = "idle"
            /\ UNCHANGED << systemStatus, initializations, timers, token >>
       ELSE /\ initPc' = "launching"
            /\ UNCHANGED << systemStatus, initializations, timers, exitStatus, token >>
    /\ UNCHANGED << callVars, userSessions, sendVars, reply, queueVars, monitorVars >>

\* bot.launch() settles.  Resolved: the drain interval, the monitoring
\* interval and the optimization interval are started and the status becomes
\* OPERATIONAL.  Rejected: the catch block of initialize, emergencyRecovery.
botLaunch(ok) ==
    /\ initPc = "launching"
    /\ exitStatus = NotExited
    /\ IF ok
       THEN /\ timers' = [timers EXCEPT !.drain = @ + 1, !.monitor = @ + 1, !.ai = @ + 1]
            /\ systemStatus' = "OPERATIONAL"
            /\ initPc' = "idle"
            /\ UNCHANGED << initializations, exitStatus, token >>
       ELSE emergencyRecovery
    /\ UNCHANGED << callVars, userSessions, sendVars, reply, queueVars, monitorVars >>

\* The 10 s timer of emergencyRecovery fires: this.initialize().
restartTimer(maxInits) ==
    /\ timers.restart > 0
    /\ exitStatus = NotExited
    /\ initPc = "idle"
    /\ initializations < maxInits
    /\ timers' = [timers EXCEPT !.restart = @ - 1]
    /\ initializations' = initializations + 1
    /\ initPc' = "start"
    /\ UNCHANGED << systemStatus, exitStatus, token >>
    /\ UNCHANGED << callVars, userSessions, sendVars, reply, queueVars, monitorVars >>

\* initiateSystemRecovery: a 5 s timer is armed, and nothing else.
initiateSystemRecovery ==
    /\ timers' = [timers EXCEPT !.recovery = @ + 1]
    /\ UNCHANGED << systemStatus, initPc, initializations, exitStatus, token >>

\* The 5 s timer of initiateSystemRecovery fires: it prints a line.
recoveryTimer ==
    /\ timers.recovery > 0
    /\ exitStatus = NotExited
    /\ timers' = [timers EXCEPT !.recovery = @ - 1]
    /\ UNCHANGED << systemStatus, initPc, initializations, exitStatus, token >>
    /\ UNCHANGED << callVars, userSessions, sendVars, reply, queueVars, monitorVars >>

\* The result of a first attempt arrives and logTransmission throws at its
\* first write (the file system refuses it): the counters are updated, the
\* retry timer is armed on a failure and the session is deleted already; the
\* catch block of sendSMS tells the user of a critical error and calls
\* initiateSystemRecovery.  Nothing is logged.
sendSMSCatch(k) ==
    /\ k \in 1..Len(sends)
    /\ sends[k].pc = "transmitting"
    /\ LET snd == sends[k]
           result == processSMSTransmission(snd.phoneNumber, snd.message, snd.transmissionId)
       IN  /\ result.kind = "return"
           /\ systemStats' = UpdateStats(systemStats, result.success)
           /\ sends' = [ Detach(sends, snd.user) EXCEPT ![k] =
                  LET seen == [@ EXCEPT !.first = IF result.success THEN "ok" ELSE "fail"]
                  IN  IF ScheduleRetry(result)
                      THEN [seen EXCEPT !.pc = "retry_wait", !.retriesScheduled = @ + 1]
                      ELSE Finished(seen) ]
           /\ userSessions' = [userSessions EXCEPT ![snd.user] = NoSession]
           /\ reply' = "critical_error"
           /\ notified' = notified \cup { result.transmissionId }
    /\ initiateSystemRecovery
    /\ UNCHANGED << callVars, smsLogs, detailFiles, queueVars, monitorVars >>

\* The handlers answer once the bot is launched, that is once initialize()
\* has run to its end.
Serving == systemStatus = "OPERATIONAL" /\ exitStatus = NotExited

\* The constructor has set the fields and called initialize(), which stands
\* at its start; the token is set or not.
BootInit ==
    /\ userSessions = [u \in Users |-> NoSession]
    /\ systemStats = [totalSMS |-> 0, successful |-> 0, failed |-> 0]
    /\ sends = << >>
    /\ smsLogs = << >>
    /\ detailFiles = {}
    /\ reply = "none"
    /\ transmissionQueue = << >>
    /\ batches = {}
    /\ queued = << >>
    /\ attempted = << >>
    /\ ticks = 0
    /\ sinceArrival = [backlog |-> 0, ticks |-> 0]
    /\ now = 0
    /\ healthLog = << >>
    /\ notified = {}
    /\ systemStatus = "BOOTING"
    /\ initPc = "start"
    /\ initializations = 1
    /\ timers = [restart |-> 0, recovery |-> 0, drain |-> 0, monitor |-> 0, ai |-> 0]
    /\ exitStatus = NotExited
    /\ token \in BOOLEAN
    /\ request = NoRequest
    /\ answer = NoAnswer

\* Start-up with every fault the environment can produce, and one user's
\* sends, with a fault at the log, once the gateway serves.
BootNext ==
    \/ \E fault \in BOOLEAN : initialize(fault)
    \/ \E ok \in BOOLEAN : botLaunch(ok)
    \/ restartTimer(MaxInits)
    \/ recoveryTimer
    \/ Serving /\ initiateSingleSMS("u1")
    \/ Serving /\ handleTextMessage("u1", PhonePK)
    \/ Serving /\ Sends(Soloist, BootSends)
    \/ Serving /\ \E k \in 1..Len(sends) : sendSMSCatch(k)

BootSpec == BootInit /\ [][BootNext]_vars

-----------------------------------------------------------------------------
(* The functions of the validator and of the optimizer, called on their    *)
(* own: request holds the arguments, answer the function and its result.   *)

Call(of, value) ==
    /\ answer' = [of |-> of, value |-> value]
    /\ UNCHANGED << request, userSessions, sendVars, reply, queueVars, monitorVars, bootVars >>

callValidatePhoneNumber ==
    Call("validatePhoneNumber", validatePhoneNumber(request.phoneNumber))

callDetectCountry ==
    Call("detectCountry", detectCountry(request.phoneNumber))

callValidateMessage ==
    Call("validateMessage", validateMessage(request.message))

callSplitMessage ==
    Call("splitMessage", splitMessage(request.message))

callOptimizeTransmission ==
    Call("optimizeTransmission", optimization(request.phoneNumber, request.message))

callCalculatePriority ==
    Call("calculatePriority", calculatePriority(request.phoneNumber, request.message))

callCalculateSuccessProbability ==
    Call("calculateSuccessProbability", calculateSuccessProbability(request.phoneNumber))

callScoreTransmissionMethod(i) ==
    Call("scoreTransmissionMethod",
         [ method |-> TRANSMISSION_METHODS[i],
           score |-> scoreTransmissionMethod(
                         TRANSMISSION_METHODS[i],
                         optimization(request.phoneNumber, request.message),
                         request.randoms[i]) ])

callSelectBestTransmissionMethod ==
    Call("selectBestTransmissionMethod",
         selectBestTransmissionMethod(optimization(request.phoneNumber, request.message),
                                      request.randoms))

\* The state of Init, with the arguments of the calls to come.
Called(requests) ==
    /\ userSessions = [u \in Users |-> NoSession]
    /\ systemStats = [totalSMS |-> 0, successful |-> 0, failed |-> 0]
    /\ sends = << >>
    /\ smsLogs = << >>
    /\ detailFiles = {}
    /\ reply = "none"
    /\ transmissionQueue = << >>
    /\ batches = {}
    /\ queued = << >>
    /\ attempted = << >>
    /\ ticks = 0
    /\ sinceArrival = [backlog |-> 0, ticks |-> 0]
    /\ now = 0
    /\ healthLog = << >>
    /\ notified = {}
    /\ systemStatus = "OPERATIONAL"
    /\ initPc = "idle"
    /\ initializations = 1
    /\ timers = [restart |-> 0, recovery |-> 0, drain |-> 1, monitor |-> 1, ai |-> 1]
    /\ exitStatus = NotExited
    /\ token = TRUE
    /\ request \in requests
    /\ answer = NoAnswer

\* The validator and the country lookup on every address.
AddressInit == Called([phoneNumber : PhoneInputs, message : { MsgHi }])

AddressNext == callValidatePhoneNumber \/ callDetectCountry

AddressSpec == AddressInit /\ [][AddressNext]_vars

\* The message validator and the splitter on every message.
MessageInit == Called([phoneNumber : { PhonePK }, message : MessageInputs])

MessageNext == callValidateMessage \/ callSplitMessage

MessageSpec == MessageInit /\ [][MessageNext]_vars

\* The validators and the optimizer on every address with every message.
PlanInit == Called([phoneNumber : PhoneInputs, message : PlanMessages])

PlanNext ==
    \/ callValidatePhoneNumber
    \/ callValidateMessage
    \/ callOptimizeTransmission
    \/ callCalculatePriority
    \/ callCalculateSuccessProbability

PlanSpec == PlanInit /\ [][PlanNext]_vars

\* The values Math.random() returns in the model.
Randoms == { (k * One) \div JitterSteps : k \in 0..JitterSteps }

\* The scoring and the selection on every profile, with every random factor
\* for every method.
ScoreInit ==
    Called([ phoneNumber : ScorePhones, message : ScoreMessages,
             randoms : [1..Len(TRANSMISSION_METHODS) -> Randoms] ])

ScoreNext ==
    \/ \E i \in 1..Len(TRANSMISSION_METHODS) : callScoreTransmissionMethod(i)
    \/ callSelectBestTransmissionMethod

ScoreSpec == ScoreInit /\ [][ScoreNext]_vars

\* One user's single sends with cancel at any moment; continuations of
\* awaits run and armed timers fire.
CancelNext ==
    \/ initiateSingleSMS("u1")
    \/ handleTextMessage("u1", PhonePK)
    \/ handleCallbackQuery("u1", "cancel")
    \/ Sends(Soloist, CancelSends)

CancelFairSpec ==
    /\ Init /\ [][CancelNext]_vars
    /\ WF_vars(\E k \in 1..Len(sends) : sendSMSTransmit(k))
    /\ WF_vars(\E k \in 1..Len(sends) : retryTransmission(k))
    /\ WF_vars(\E k \in 1..Len(sends) : transmitSMSTimer(k))

\* The two log files outlive the process: it starts with what earlier runs
\* appended, numbered here from the oldest.
PastEntry(i) ==
    [ transmissionId |-> << "past", i >>, phoneNumber |-> Undefined,
      success |-> FALSE, method |-> "FAILED" ]

PastSample(i) == [ sessions |-> 0, queue |-> 0, timestamp |-> i - HEALTH_LOG_CAP - 1 ]

LogInit ==
    /\ userSessions = [u \in Users |-> NoSession]
    /\ systemStats = [totalSMS |-> 0, successful |-> 0, failed |-> 0]
    /\ sends = << >>
    /\ \E n \in { 0, TRANSMISSION_LOG_CAP - 1, TRANSMISSION_LOG_CAP } :
          smsLogs = [i \in 1..n |-> PastEntry(i)]
    /\ detailFiles = {}
    /\ reply = "none"
    /\ transmissionQueue = << >>
    /\ batches = {}
    /\ queued = << >>
    /\ attempted = << >>
    /\ ticks = 0
    /\ sinceArrival = [backlog |-> 0, ticks |-> 0]
    /\ now = 0
    /\ \E n \in { 0, HEALTH_LOG_CAP - 1, HEALTH_LOG_CAP } :
          healthLog = [i \in 1..n |-> PastSample(i)]
    /\ notified = {}
    /\ Operational

\* One user's sends and the maintenance interval on logs of every fill.
LogNext ==
    \/ initiateSingleSMS("u1")
    \/ handleTextMessage("u1", PhonePK)
    \/ Sends(Soloist, LogSends)
    \/ monitoringInterval(LogClock)

LogSpec == LogInit /\ [][LogNext]_vars

-----------------------------------------------------------------------------
(* Properties.                                                             *)

Min(a, b) == IF a < b THEN a ELSE b

Max(a, b) == IF a < b THEN b ELSE a

\* The edges each mode allows between steps.
AllowedEdges ==
    { << "SINGLE", "awaiting_number", "awaiting_message" >>,
      << "SINGLE", "awaiting_message", "confirm_send" >>,
      << "BULK", "awaiting_bulk_numbers", "awaiting_bulk_messages" >>,
      << "BULK", "awaiting_bulk_messages", "confirm_send" >>,
      << "SCHEDULED", "awaiting_schedule_time", "awaiting_schedule_message" >>,
      << "SCHEDULED", "awaiting_schedule_message", "confirm_send" >> }

StartsFlow(u) == initiateSingleSMS(u) \/ initiateBulkSMS(u) \/ initiateScheduleSMS(u)

\* C1: whenever the step of a session changes (the session is neither
\* started nor removed by the step), the change is an edge of the graph of
\* the session's mode: never backward, never to a step of another mode.
C1_StepFollowsModeGraph ==
    [][ \A u \in Users :
          ( /\ userSessions[u] # NoSession
            /\ userSessions'[u] # NoSession
            /\ userSessions'[u].step # userSessions[u].step
            /\ ~StartsFlow(u) )
          => << userSessions[u].mode, userSessions[u].step, userSessions'[u].step >>
                 \in AllowedEdges ]_vars

\* The stored fields of a session.
Fields(session) ==
    << session.phoneNumber, session.country, session.message, session.messageParts >>

Rejects(session, text) ==
    \/ session.step = "awaiting_number" /\ ~validatePhoneNumber(text).valid
    \/ session.step = "awaiting_message" /\ ~validateMessage(text).valid

Accepts(session, text) ==
    \/ session.step = "awaiting_number" /\ validatePhoneNumber(text).valid
    \/ session.step = "awaiting_message" /\ validateMessage(text).valid

\* C2: a text turn whose input the validator of the active step rejects
\* leaves the step and the stored fields of the session as they were and
\* answers with a validation error; a text turn changes the step only when
\* that validator accepts the input.
C2_RejectedInputChangesNothing ==
    [][ \A u \in Users, text \in TextInputs :
          handleTextMessage(u, text) =>
             /\ Rejects(userSessions[u], text) =>
                   /\ userSessions'[u].step = userSessions[u].step
                   /\ Fields(userSessions'[u]) = Fields(userSessions[u])
                   /\ reply' = "validation_error"
             /\ userSessions'[u].step # userSessions[u].step =>
                   Accepts(userSessions[u], text) ]_vars

\* A message was rejected after the number had been accepted: the session
\* still waits for the message and still holds the number.
C2_Witness ==
    /\ reply = "validation_error"
    /\ userSessions["u1"].step = "awaiting_message"
    /\ userSessions["u1"].phoneNumber = PhonePK
    /\ userSessions["u1"].message = Undefined

\* C3: a request gets at most two transmission attempts and at most one
\* retry timer; the timer is armed exactly when the first attempt failed,
\* never after a success; and once the retry has run nothing is pending for
\* the request, whatever the retry returned.
C3_AtMostOneRetry ==
    \A k \in 1..Len(sends) :
        /\ sends[k].attempts <= 2
        /\ sends[k].retriesScheduled <= 1
        /\ sends[k].first = "ok" =>
              sends[k].retriesScheduled = 0 /\ sends[k].attempts = 1 /\ sends[k].pc = "done"
        /\ sends[k].first = "fail" => sends[k].retriesScheduled = 1
        /\ sends[k].first = "none" => sends[k].retriesScheduled = 0
        /\ sends[k].retry # "none" =>
              sends[k].first = "fail" /\ sends[k].attempts = 2 /\ sends[k].pc = "done"
        /\ sends[k].pc = "retry_wait" => sends[k].attempts = 1 /\ sends[k].retry = "none"

\* A first attempt failed, its one retry ran and failed too, and the request
\* is over; another request succeeded at once and armed no timer.
C3_Witness ==
    /\ \E k \in 1..Len(sends) :
          /\ sends[k].first = "fail"
          /\ sends[k].retry = "fail"
          /\ sends[k].pc = "done"
          /\ sends[k].attempts = 2
    /\ \E k \in 1..Len(sends) :
          /\ sends[k].first = "ok"
          /\ sends[k].pc = "done"

\* No retry ever reaches the latency wait or succeeds: the retry reads the
\* data of the session the failed attempt read, which nothing can change
\* once sendSMS has deleted the session.
RetryNeverSucceeds ==
    \A k \in 1..Len(sends) :
        sends[k].retry # "ok" /\ sends[k].pc # "retry_transmitting"

\* C5: successful + failed never exceeds totalSMS.
C5_CountersWithinTotal ==
    systemStats.successful + systemStats.failed <= systemStats.totalSMS

\* Both users have had a send counted, one failed and one succeeded, a failed
\* one has been retried, and the queue drain has transmitted a request.
C5_Witness ==
    /\ Len(sends) = 2
    /\ sends[1].user # sends[2].user
    /\ systemStats.totalSMS = 2
    /\ systemStats.failed = 1
    /\ systemStats.successful = 1
    /\ \E k \in 1..2 : sends[k].retry = "fail"
    /\ \E i \in 1..Len(attempted) : attempted[i].kind = "return"

\* C6: at most one drain loop is in flight.
C6_OneDrainInFlight == Cardinality(batches) <= 1

\* C7: a drain tick on a queue of length L removes the min(L, 10) oldest
\* requests and only them; the others stay, in their order; and the removed
\* ones are the ones the tick starts to process.
C7_TickRemovesOldestTen ==
    [][ processTransmissionQueue(MaxTicks) =>
          LET len == Len(transmissionQueue)
              k == Min(len, 10)
              removed == { transmissionQueue[i].id : i \in 1..k }
          IN  /\ Len(transmissionQueue') = len - k
              /\ \A i \in 1..(len - k) : transmissionQueue'[i] = transmissionQueue[k + i]
              /\ \A id \in removed :
                    \/ attempted'[id].kind # "none"
                    \/ \E b \in batches' \ batches :
                          \E i \in 1..Len(b.items) : b.items[i].id = id
              /\ \A b \in batches' \ batches :
                    \A i \in 1..Len(b.items) : b.items[i].id \in removed ]_vars

\* A tick has taken ten requests of a backlog of more than ten, and the rest
\* is still queued.
C7_Witness ==
    /\ sinceArrival.backlog > 10
    /\ sinceArrival.ticks = 1
    /\ Len(transmissionQueue) = sinceArrival.backlog - 10
    /\ transmissionQueue[1].id = Len(queued) - Len(transmissionQueue) + 1

\* The requests that have left the queue.
Removed == { i \in 1..Len(queued) : \A j \in 1..Len(transmissionQueue) :
                                        transmissionQueue[j].id # i }

\* After t drain ticks without an arrival a backlog of N is down to
\* max(0, N - 10 t): it is gone after ceil(N / 10) ticks.
QueueDrainsInCeil ==
    Len(transmissionQueue) = Max(0, sinceArrival.backlog - 10 * sinceArrival.ticks)

\* C8: with no arrival in between, ceil(N / 10) drain ticks empty a queue of
\* N requests, and every request that has left the queue is eventually
\* transmitted.
C8_BacklogDrains ==
    /\ []QueueDrainsInCeil
    /\ \A id \in 1..MaxRequests :
          (id \in Removed) ~> (id \in Removed /\ attempted[id].kind # "none")

\* A backlog of more than ten is gone after two ticks and all of it has been
\* transmitted.
C8_Witness ==
    /\ sinceArrival.backlog > 10
    /\ sinceArrival.ticks = 2
    /\ transmissionQueue = << >>
    /\ batches = {}
    /\ \A id \in 1..Len(queued) : attempted[id].kind # "none"

\* C9: every request a tick removed from the queue has been attempted or is
\* still ahead in the loop of its batch: none is skipped because another
\* request of the batch failed.
C9_FailureDoesNotAbortBatch ==
    \A id \in Removed :
        \/ attempted[id].kind # "none"
        \/ \E b \in batches : \E i \in b.pos..Len(b.items) : b.items[i].id = id

\* In one batch still in flight, a request failed and a later one was
\* transmitted.
C9_Witness ==
    \E b \in batches :
        \E i, j \in 1..Len(b.items) :
            /\ i < j
            /\ j < b.pos
            /\ attempted[b.items[i].id].kind = "return"
            /\ ~attempted[b.items[i].id].success
            /\ attempted[b.items[j].id].success

\* C10: whatever the address and the message, missing ones included,
\* processSMSTransmission returns a result and throws nothing: FAILED with
\* the error text when a stage threw, DELIVERED otherwise.
C10_ExecutorAlwaysReturns ==
    \A id \in 1..Len(queued) :
        attempted[id].kind # "none" =>
            /\ attempted[id].kind = "return"
            /\ IF queued[id].phoneNumber = Undefined \/ queued[id].message = Undefined
               THEN /\ ~attempted[id].success
                    /\ attempted[id].status = "FAILED"
                    /\ attempted[id].error # "none"
               ELSE /\ attempted[id].success
                    /\ attempted[id].status = "DELIVERED"

\* Transmissions of a complete request, of one without address, of one
\* without message and of one without either have all returned.
C10_Witness ==
    /\ Len(queued) >= 7
    /\ \A id \in {1, 3, 5, 7} : attempted[id].kind = "return"
    /\ attempted[1].success
    /\ ~attempted[3].success
    /\ ~attempted[5].success
    /\ ~attempted[7].success

\* A log after the append of entry e under a cap: e is last, what was there
\* stays in order before it, and the oldest entry went if the log was full.
Appended(old, new, e, cap) ==
    /\ Len(new) <= cap
    /\ new = IF Len(old) < cap THEN Append(old, e) ELSE Append(Tail(old), e)

\* C11: every logTransmission leaves the transmission log with the new entry
\* last, the earlier ones in order before it and at most 10000 entries, the
\* oldest evicted; every checkSystemHealth does the same to the health log
\* with 1000; nothing else changes either log.  Hence each log is the last
\* min(n, cap) entries appended, in append order.
C11_LogsKeepNewest ==
    /\ [](Len(smsLogs) <= TRANSMISSION_LOG_CAP /\ Len(healthLog) <= HEALTH_LOG_CAP)
    /\ [][ /\ IF detailFiles' # detailFiles
              THEN /\ Len(smsLogs') > 0
                   /\ detailFiles' \ detailFiles = { smsLogs'[Len(smsLogs')].transmissionId }
                   /\ Appended(smsLogs, smsLogs', smsLogs'[Len(smsLogs')],
                               TRANSMISSION_LOG_CAP)
              ELSE smsLogs' = smsLogs
           /\ IF now' # now
              THEN /\ Len(healthLog') > 0
                   /\ healthLog'[Len(healthLog')].timestamp = now'
                   /\ Appended(healthLog, healthLog', healthLog'[Len(healthLog')],
                               HEALTH_LOG_CAP)
              ELSE healthLog' = healthLog ]_vars

\* Both logs were full; an append to each evicted its oldest entry and put the
\* new one last.
C11_Witness ==
    /\ Len(smsLogs) = TRANSMISSION_LOG_CAP
    /\ smsLogs[1] = PastEntry(2)
    /\ smsLogs[TRANSMISSION_LOG_CAP].transmissionId = SendTxId(1, 1)
    /\ Len(healthLog) = HEALTH_LOG_CAP
    /\ healthLog[1] = PastSample(2)
    /\ healthLog[HEALTH_LOG_CAP].timestamp = 1

\* C12: cancel leaves the user without a session whatever the step and the
\* mode of the session were, leaves the session of every other user as it
\* was, and leaves the whole map as it was when the user had no session.
C12_CancelRemovesOnlyOwnSession ==
    [][ \A u \in Users :
          handleCallbackQuery(u, "cancel") =>
             /\ userSessions'[u] = NoSession
             /\ \A v \in Users \ { u } : userSessions'[v] = userSessions[v]
             /\ userSessions[u] = NoSession => userSessions' = userSessions ]_vars

\* The last turn was a cancel of u1, who has no session now, and the session
\* of u2, complete and waiting for its confirmation, is still there.
C12_Witness ==
    /\ reply = "cancelled"
    /\ userSessions["u1"] = NoSession
    /\ userSessions["u2"].step = "confirm_send"
    /\ userSessions["u2"].phoneNumber = PhonePK
    /\ userSessions["u2"].message = MsgHi

\* C13: a run of the session clean-up keeps every session whose last turn
\* (its start or a text, accepted or rejected) is less than 5 minutes old and
\* removes every session without a turn for more than 5 minutes, and no other.
C13_CleanupByLastTurn ==
    [][ now' # now =>
          \A u \in Users :
             userSessions[u] # NoSession =>
                /\ now' - userSessions[u].touched < SESSION_TTL =>
                      userSessions'[u] = userSessions[u]
                /\ now' - userSessions[u].touched > SESSION_TTL =>
                      userSessions'[u] = NoSession ]_vars

\* A session as a flow start makes it: the first step of the flow, no field.
Fresh(session, step, mode) ==
    /\ session.step = step
    /\ session.mode = mode
    /\ session.phoneNumber = Undefined
    /\ session.country = NoCountry
    /\ session.message = Undefined
    /\ session.messageParts = NoParts
    /\ session.timestamp = now

\* C14: the start of a flow leaves its user with one session, fresh, in the
\* first step of that flow, whatever session the user had, and leaves the
\* other users' sessions alone.  (The map has one entry per user by its key.)
C14_FlowStartReplacesSession ==
    [][ \A u \in Users :
          /\ initiateSingleSMS(u) => Fresh(userSessions'[u], "awaiting_number", "SINGLE")
          /\ initiateBulkSMS(u) => Fresh(userSessions'[u], "awaiting_bulk_numbers", "BULK")
          /\ initiateScheduleSMS(u) =>
                Fresh(userSessions'[u], "awaiting_schedule_time", "SCHEDULED")
          /\ StartsFlow(u) => \A v \in Users \ { u } : userSessions'[v] = userSessions[v]
      ]_vars

\* Both users had a session when the interval sampled at minute 1; u1 has
\* started the bulk flow since, and holds a fresh session of that minute.
C14_Witness ==
    /\ now = 1
    /\ healthLog[1].sessions = 2
    /\ Fresh(userSessions["u1"], "awaiting_bulk_numbers", "BULK")
    /\ userSessions["u2"].timestamp = 0
    /\ userSessions["u2"].phoneNumber = PhonePK

\* The inputs the prompts of the bulk and schedule flows give as valid, with
\* the step each is sent in and the step the flow then goes to.
BulkAndScheduleTurns ==
    { << "BULK", "awaiting_bulk_numbers", PhonePK, "awaiting_bulk_messages" >>,
      << "BULK", "awaiting_bulk_messages", MsgHi, "confirm_send" >>,
      << "SCHEDULED", "awaiting_schedule_time", ScheduleTime, "awaiting_schedule_message" >>,
      << "SCHEDULED", "awaiting_schedule_message", MsgHi, "confirm_send" >> }

\* C15: a BULK session that gets valid addresses goes on to the messages and,
\* with valid messages, to confirm_send; a SCHEDULED session that gets a
\* valid time goes on to the message and, with a valid message, to
\* confirm_send.
C15_BulkAndScheduleAdvance ==
    [][ \A u \in Users, t \in BulkAndScheduleTurns :
          ( /\ userSessions[u].mode = t[1]
            /\ userSessions[u].step = t[2]
            /\ handleTextMessage(u, t[3]) )
          => userSessions'[u].step = t[4] ]_vars

\* C16: sendSMS runs a transmission attempt, and counts it in totalSMS, only
\* with an address and a message, and only for a session in confirm_send:
\* a confirmation that arrives in an earlier step starts no attempt and
\* changes no counter.
C16_DispatchOnlyWhenConfirmed ==
    [][ \A k \in 1..Len(sends) :
          ( sends[k].attempts = 0 /\ sends'[k].attempts = 1 )
          => /\ HeldData(sends[k]).phoneNumber # Undefined
             /\ HeldData(sends[k]).message # Undefined
             /\ sends[k].live => userSessions[sends[k].user].step = "confirm_send" ]_vars

\* The transmissions whose outcome reached the user or a log.
Reported == notified \cup detailFiles \cup { smsLogs[i].transmissionId : i \in 1..Len(smsLogs) }

\* C17: every transmission attempt that failed, be it the first attempt of a
\* send, its retry or a request of the queue, has been told to the user or
\* written to a log.
C17_EveryFailureReported ==
    /\ \A k \in 1..Len(sends) :
          /\ sends[k].first = "fail" => SendTxId(k, 1) \in Reported
          /\ sends[k].retry = "fail" => SendTxId(k, 2) \in Reported
    /\ \A id \in 1..Len(attempted) :
          ( attempted[id].kind = "return" /\ ~attempted[id].success )
          => QueueTxId(id) \in Reported

\* The ids of the results processSMSTransmission has returned so far.
Produced ==
    { SendTxId(k, 1) : k \in { j \in 1..Len(sends) : sends[j].first \in { "ok", "fail" } } }
    \cup { SendTxId(k, 2) : k \in { j \in 1..Len(sends) : sends[j].retry \in { "ok", "fail" } } }
    \cup { QueueTxId(id) : id \in { j \in 1..Len(attempted) : attempted[j].kind = "return" } }

\* C18: every result the executor has returned, to a first attempt, to a
\* retry or to the queue drain, has its detail record and is in the
\* transmission log exactly once (fewer than 10000 entries being logged).
C18_EveryResultLoggedOnce ==
    \A id \in Produced :
        /\ id \in detailFiles
        /\ Cardinality({ i \in 1..Len(smsLogs) : smsLogs[i].transmissionId = id }) = 1

\* The sends whose first attempt has returned a result, by outcome.
Counted(outcome) == { k \in 1..Len(sends) : sends[k].first = outcome }

\* The counters and the log say what the first attempts returned (and the
\* retries that succeeded), whatever became of the sessions.
AccountsForEveryResult ==
    LET recovered == Cardinality({ k \in 1..Len(sends) : sends[k].retry = "ok" })
    IN  /\ systemStats.totalSMS = Cardinality(Counted("ok")) + Cardinality(Counted("fail"))
        /\ systemStats.successful = Cardinality(Counted("ok")) + recovered
        /\ systemStats.failed = Cardinality(Counted("fail")) - recovered
        /\ \A k \in Counted("ok") \cup Counted("fail") :
              /\ SendTxId(k, 1) \in detailFiles
              /\ \E i \in 1..Len(smsLogs) :
                    /\ smsLogs[i].transmissionId = SendTxId(k, 1)
                    /\ smsLogs[i].success = (sends[k].first = "ok")
        /\ \A k \in 1..Len(sends) : sends[k].pc = "done" => sends[k].first # "none"

\* A send that has lost its session while it waits for its transmission.
Orphaned(k) ==
    /\ k <= Len(sends)
    /\ sends[k].pc \in { "processing", "transmitting" }
    /\ ~sends[k].live

\* C19: a cancel changes nothing of the sends in flight: where they stand and
\* the address and message they hold; a send that has lost its session still
\* gets its result, and the result is the one the data it holds gives; the
\* counters and the log account for every result, cancelled session or not.
C19_CancelLeavesTransmission ==
    /\ []AccountsForEveryResult
    /\ [][ /\ handleCallbackQuery("u1", "cancel") =>
                \A k \in 1..Len(sends) :
                   /\ sends'[k].pc = sends[k].pc
                   /\ sends'[k].attempts = sends[k].attempts
                   /\ HeldData(sends[k])' = HeldData(sends[k])
           /\ \A k \in 1..Len(sends) :
                ( sends[k].first = "none" /\ sends'[k].first # "none" ) =>
                   sends'[k].first =
                      IF HeldData(sends[k]).phoneNumber # Undefined
                         /\ HeldData(sends[k]).message # Undefined
                      THEN "ok" ELSE "fail" ]_vars
    /\ \A k \in 1..CancelSends :
          Orphaned(k) ~> ( k <= Len(sends) /\ sends[k].first \in { "ok", "fail" } )

\* The user has just cancelled, and has no session; a send that held the
\* session, complete, is waiting for the latency timer of its transmission.
C19_Witness ==
    /\ reply = "cancelled"
    /\ userSessions["u1"] = NoSession
    /\ \E k \in 1..Len(sends) :
          /\ sends[k].pc = "transmitting"
          /\ ~sends[k].live
          /\ sends[k].held = [phoneNumber |-> PhonePK, message |-> PhonePK]

\* C20: a fault in the dispatch pipeline puts the engine in a degraded
\* status and arms one delayed re-initialization, and so does a failure of
\* initialize(); the process is not ended; initialize() runs again once and
\* no more.
C20_FaultDegradesAndReinitializesOnce ==
    /\ [][ ( ( \E k \in 1..Len(sends) : sendSMSCatch(k) )
             \/ initialize(TRUE) \/ botLaunch(FALSE) )
           => /\ systemStatus' # "OPERATIONAL"
              /\ timers'.restart = timers.restart + 1
              /\ exitStatus' = NotExited ]_vars
    /\ [](initializations <= 2)

\* C21: without the token the status is never OPERATIONAL, neither the drain
\* interval nor the monitoring interval is started, and the only exit status
\* is 1; the run of initialize() that reaches startTelegramBot ends the
\* process with status 1, and after that nothing changes any more.
C21_MissingTokenExitsWithOne ==
    /\ [] ( ~token => /\ systemStatus # "OPERATIONAL"
                      /\ timers.drain = 0
                      /\ timers.monitor = 0
                      /\ initPc # "launching"
                      /\ exitStatus \in { NotExited, Exited(1) } )
    /\ [][ /\ ( ~token /\ initialize(FALSE) ) => exitStatus' = Exited(1)
           /\ exitStatus # NotExited => UNCHANGED vars ]_vars

\* The token is not set and initialize() has reached startTelegramBot, which
\* has ended the process.
C21_Witness ==
    /\ ~token
    /\ exitStatus = Exited(1)
    /\ systemStatus = "BOOTING"
    /\ initPc = "idle"

\* "+", one digit 1-9, then 10 to 14 further digits.
WellFormed(a) ==
    \E n \in 10..14 :
        /\ Len(a) = 2 + n
        /\ a[1] = "+"
        /\ a[2] \in { "1", "2", "3", "4", "5", "6", "7", "8", "9" }
        /\ \A i \in 3..(2 + n) : a[i] \in { "0", "1", "2", "3", "4", "5", "6", "7", "8", "9" }

\* C22: validatePhoneNumber says valid exactly of the well-formed addresses;
\* of every other one ("+440000000" among them) it says invalid, with the
\* format error and country UNKNOWN; of a valid one it reports the country
\* detectCountry gives.
C22_ValidExactlyWellFormed ==
    answer.of = "validatePhoneNumber" =>
        LET a == request.phoneNumber
        IN  /\ answer.value.valid = WellFormed(a)
            /\ ~WellFormed(a) => /\ answer.value.message = "invalid_format"
                                 /\ answer.value.country = "UNKNOWN"
            /\ WellFormed(a) => answer.value.country = detectCountry(a)
            /\ a = PhoneShort => ~answer.value.valid

\* The validator has answered on "+440000000".
C22_Witness ==
    /\ request.phoneNumber = PhoneShort
    /\ answer.of = "validatePhoneNumber"
    /\ answer.value = [valid |-> FALSE, message |-> "invalid_format", country |-> "UNKNOWN"]

\* The country of the longest prefix of the table the address starts with.
LongestPrefixCountry(a) ==
    LET table == { << << "+", "9", "2" >>, "PAKISTAN" >>, << << "+", "1" >>, "USA" >>,
                   << << "+", "4", "4" >>, "UK" >>, << << "+", "9", "7", "1" >>, "UAE" >>,
                   << << "+", "9", "6", "6" >>, "SAUDI_ARABIA" >>,
                   << << "+", "9", "1" >>, "INDIA" >>, << << "+", "8", "6" >>, "CHINA" >> }
        hits == { e \in table : Len(a) >= Len(e[1]) /\ SubSeq(a, 1, Len(e[1])) = e[1] }
    IN  IF hits = {} THEN "INTERNATIONAL"
        ELSE (CHOOSE e \in hits : \A f \in hits : Len(f[1]) <= Len(e[1]))[2]

\* C23: detectCountry returns the country of the longest prefix of the table
\* that the address starts with, INTERNATIONAL when there is none; the result
\* is a function of the address and the table.
C23_LongestPrefixCountry ==
    answer.of = "detectCountry" => answer.value = LongestPrefixCountry(request.phoneNumber)

\* The lookup has answered UAE on an address that starts with +971, and so
\* with the "+9" the prefixes of four countries begin with.
C23_Witness ==
    /\ answer.of = "detectCountry"
    /\ answer.value = "UAE"
    /\ SubSeq(request.phoneNumber, 1, 4) = << "+", "9", "7", "1" >>
    /\ Len(request.phoneNumber) = 16

\* What trimming leaves of a message: it goes from the first character that
\* is no whitespace to the last one.
Trimmed(m) ==
    LET solid == { i \in 1..Len(m) : m[i] \notin { " ", "\t", "\n" } }
    IN  IF solid = {} THEN << >>
        ELSE SubSeq(m, CHOOSE i \in solid : \A j \in solid : i <= j,
                       CHOOSE i \in solid : \A j \in solid : j <= i)

\* C24: validateMessage rejects a message exactly when nothing is left of it
\* after trimming or it is longer than 1000 characters: 1000 characters with
\* a letter are accepted, 1001 are rejected; the call changes nothing but
\* its result.
C24_MessageRejectedExactly ==
    /\ [] ( answer.of = "validateMessage" =>
              LET m == request.message
              IN  /\ answer.value.valid = ~( Trimmed(m) = << >> \/ Len(m) > 1000 )
                  /\ ( Len(m) = 1000 /\ Trimmed(m) # << >> ) => answer.value.valid
                  /\ Len(m) = 1001 => ~answer.value.valid )
    /\ [][ callValidateMessage =>
             UNCHANGED << request, userSessions, sendVars, reply, queueVars,
                          monitorVars, bootVars >> ]_vars

\* A message of 1000 characters, blank but for the last one, was accepted.
C24_Witness ==
    /\ Len(request.message) = 1000
    /\ request.message[1] = " "
    /\ request.message[1000] = "a"
    /\ answer.of = "validateMessage"
    /\ answer.value.valid

RECURSIVE Concat(_)
Concat(parts) == IF parts = << >> THEN << >> ELSE Head(parts) \o Concat(Tail(parts))

\* C25: splitMessage(m) returns ceil(len(m) / 160) pieces of 1 to 160
\* characters each, whose concatenation in their order is m: 3 pieces for 350
\* characters, none for the empty message.
C25_SplitCoversMessage ==
    answer.of = "splitMessage" =>
        LET m == request.message
            parts == answer.value
        IN  /\ Len(parts) = (Len(m) + 159) \div 160
            /\ \A i \in 1..Len(parts) : Len(parts[i]) >= 1 /\ Len(parts[i]) <= 160
            /\ Concat(parts) = m
            /\ Len(m) = 350 => Len(parts) = 3
            /\ Len(m) = 0 => parts = << >>

\* A message of 350 characters that differ was split in pieces of 160, 160
\* and 30.
C25_Witness ==
    /\ request.message = Pattern(350)
    /\ answer.of = "splitMessage"
    /\ Len(answer.value) = 3
    /\ Len(answer.value[3]) = 30

\* C28: for the address +923001234567 and the message Hello both validations
\* pass and the profile has country PAKISTAN, 1 part, encoding GSM_7BIT,
\* priority 1.2 and route QUANTUM_PAKISTAN_HUB.
C28_PakistanHelloProfile ==
    ( request.phoneNumber = PhonePK /\ request.message = MsgHello ) =>
        /\ answer.of = "validatePhoneNumber" =>
              answer.value.valid /\ answer.value.country = "PAKISTAN"
        /\ answer.of = "validateMessage" => answer.value.valid
        /\ answer.of = "optimizeTransmission" =>
              /\ answer.value.country = "PAKISTAN"
              /\ answer.value.parts = 1
              /\ answer.value.encoding = "GSM_7BIT"
              /\ answer.value.priority = 1200000
              /\ answer.value.bestRoute = "QUANTUM_PAKISTAN_HUB"

\* The optimizer has returned the profile of +923001234567 and Hello.
C28_Witness ==
    /\ request = [phoneNumber |-> PhonePK, message |-> MsgHello]
    /\ answer.of = "optimizeTransmission"
    /\ answer.value.messageLength = 5
    /\ answer.value.priority = 1200000

\* C29: the success probability computed for +923001234567 is 0.9575, to
\* the fourth decimal.
C29_PakistanProbability ==
    ( request.phoneNumber = PhonePK /\ answer.of = "calculateSuccessProbability" ) =>
        ( answer.value >= 957450 /\ answer.value <= 957550 )

\* The country weight of the probability, in hundredths.
ProbabilityWeight(country) ==
    CASE country = "PAKISTAN" -> 95
      [] country = "USA" -> 90
      [] country = "UAE" -> 92
      [] country = "SAUDI_ARABIA" -> 91
      [] country = "INTERNATIONAL" -> 80
      [] OTHER -> 85

\* C30: for every address the success probability is
\* min(0.99, 0.85 x w + 0.10), w the weight of the address's country in the
\* table and 0.85 for a country that is not in it; it lies in [0, 0.99].
C30_ProbabilityFormula ==
    answer.of = "calculateSuccessProbability" =>
        LET w == ProbabilityWeight(LongestPrefixCountry(request.phoneNumber))
            expected == 85 * w * 100 + 100000
        IN  /\ answer.value = IF expected < 990000 THEN expected ELSE 990000
            /\ answer.value >= 0
            /\ answer.value <= 990000

\* The probability of an address of the UK, a country the table does not
\* hold, was computed with the weight 0.85.
C30_Witness ==
    /\ answer.of = "calculateSuccessProbability"
    /\ answer.value = 822500
    /\ SubSeq(request.phoneNumber, 1, 3) = << "+", "4", "4" >>

\* C26: the score of each of the 5 methods, on every profile and with every
\* random factor from -0.1 to 0.1, lies in [0, 1].
C26_ScoreWithinUnit ==
    answer.of = "scoreTransmissionMethod" =>
        /\ answer.value.score >= 0
        /\ answer.value.score <= 1000000

\* WAVE_FUNCTION_TRANSMISSION, 0.5 + 0.4, was scored with the largest random
\* factor, 0.1, and got 1.
C26_Witness ==
    /\ answer.of = "scoreTransmissionMethod"
    /\ answer.value.method = "WAVE_FUNCTION_TRANSMISSION"
    /\ request.randoms[5] = 1000000
    /\ answer.value.score = 1000000

\* The score of the i-th method of the list on the request.
ScoreOf(i) ==
    scoreTransmissionMethod(TRANSMISSION_METHODS[i],
                            optimization(request.phoneNumber, request.message),
                            request.randoms[i])

\* Every random factor of the request is 0.
NoJitter == \A i \in 1..5 : request.randoms[i] = 500000

\* C27: the selected method has the largest of the 5 scores and is the first
\* of the list that has it; without random factor the selection is the same
\* whenever the profile is the same, QUANTUM_TUNNELING for an address of
\* Pakistan, where it scores 0.9 as WAVE_FUNCTION_TRANSMISSION does.
C27_FirstMaximumSelected ==
    answer.of = "selectBestTransmissionMethod" =>
        /\ \E c \in 1..5 :
              /\ answer.value = TRANSMISSION_METHODS[c]
              /\ \A j \in 1..5 : ScoreOf(j) <= ScoreOf(c)
              /\ \A j \in 1..(c - 1) : ScoreOf(j) < ScoreOf(c)
        /\ NoJitter =>
              answer.value = selectBestTransmissionMethod(
                                 optimization(request.phoneNumber, request.message),
                                 [i \in 1..5 |-> 500000])
        /\ ( NoJitter /\ LongestPrefixCountry(request.phoneNumber) = "PAKISTAN" ) =>
              /\ ScoreOf(1) = 900000
              /\ ScoreOf(5) = 900000
              /\ answer.value = "QUANTUM_TUNNELING"

\* Without random factor QUANTUM_TUNNELING was selected for +923001234567,
\* where WAVE_FUNCTION_TRANSMISSION has the same score.
C27_Witness ==
    /\ answer.of = "selectBestTransmissionMethod"
    /\ NoJitter
    /\ request.phoneNumber = PhonePK
    /\ ScoreOf(1) = ScoreOf(5)
    /\ answer.value = "QUANTUM_TUNNELING"

\* The letter c in lower case.
Folded(c) ==
    LET pairs == { << "A", "a" >>, << "B", "b" >>, << "C", "c" >>, << "D", "d" >>,
                   << "E", "e" >>, << "F", "f" >>, << "G", "g" >>, << "H", "h" >>,
                   << "I", "i" >>, << "J", "j" >>, << "K", "k" >>, << "L", "l" >>,
                   << "M", "m" >>, << "N", "n" >>, << "O", "o" >>, << "P", "p" >>,
                   << "Q", "q" >>, << "R", "r" >>, << "S", "s" >>, << "T", "t" >>,
                   << "U", "u" >>, << "V", "v" >>, << "W", "w" >>, << "X", "x" >>,
                   << "Y", "y" >>, << "Z", "z" >> }
    IN  IF \E e \in pairs : e[1] = c THEN (CHOOSE e \in pairs : e[1] = c)[2] ELSE c

\* The urgency keywords that occur in a message, ignoring case.
KeywordsIn(m) ==
    { w \in { << "u", "r", "g", "e", "n", "t" >>,
              << "e", "m", "e", "r", "g", "e", "n", "c", "y" >>,
              << "a", "s", "a", "p" >>,
              << "i", "m", "m", "e", "d", "i", "a", "t", "e", "l", "y" >> } :
        \E i \in 0..(Len(m) - Len(w)) : \A j \in 1..Len(w) : Folded(m[i + j]) = w[j] }

\* The country weight of the priority, in millionths.
PriorityWeight(country) ==
    CASE country = "PAKISTAN" -> 1200000
      [] country = "USA" -> 1100000
      [] country = "INTERNATIONAL" -> 900000
      [] OTHER -> 1000000

\* C31: for every address and message the priority is min(3, w x 1.5^k), w
\* the weight of the address's country (1.0 when the table does not hold it)
\* and k the number of urgency keywords that occur in the message, ignoring
\* case, each counted once; it lies in [0, 3].
C31_PriorityFormula ==
    answer.of = "calculatePriority" =>
        LET w == PriorityWeight(LongestPrefixCountry(request.phoneNumber))
            k == Cardinality(KeywordsIn(request.message))
            pow3 == << 1, 3, 9, 27, 81 >>[k + 1]
            pow2 == << 1, 2, 4, 8, 16 >>[k + 1]
            expected == (w * pow3) \div pow2
        IN  /\ (w * pow3) % pow2 = 0
            /\ answer.value = IF expected < 3000000 THEN expected ELSE 3000000
            /\ answer.value >= 0
            /\ answer.value <= 3000000

\* The priority of a message that says asap three times, in either case, to
\* an address of Pakistan: 1.2 x 1.5.
C31_Witness ==
    /\ answer.of = "calculatePriority"
    /\ request.phoneNumber = PhonePK
    /\ Len(request.message) = 14
    /\ KeywordsIn(request.message) = { << "a", "s", "a", "p" >> }
    /\ answer.value = 1800000

\* C32: when the first attempt of an interactive dispatch completes while
\* the user's entry of the session map is no longer the session the dispatch
\* read (the user has started a new flow meanwhile), that entry stays in the
\* map, with its step and fields.
C32_DispatchRemovesOnlyItsSession ==
    [][ \A k \in 1..Len(sends) :
          ( /\ sends[k].pc \in { "processing", "transmitting" }
            /\ sends'[k].first # sends[k].first
            /\ ~sends[k].live
            /\ userSessions[sends[k].user] # NoSession )
          => userSessions'[sends[k].user] = userSessions[sends[k].user] ]_vars

\* C33: no two transmissions are started for one session: of two sendSMS
\* invocations that hold the same session object, the user's entry of the
\* map, at most one has called the executor.
C33_OneDispatchPerSession ==
    \A k, j \in 1..Len(sends) :
        ( /\ k # j
          /\ sends[k].user = sends[j].user
          /\ sends[k].live
          /\ sends[j].live )
        => ~( sends[k].attempts >= 1 /\ sends[j].attempts >= 1 )

\* The transmission of a queued request has returned or thrown.
Completed(id) == attempted[id].kind # "none"

\* The transmission of a queued request has been started.
Started(id) ==
    \/ Completed(id)
    \/ \E b \in batches : b.items[b.pos].id = id

\* C34: queued requests are transmitted in the order of their arrival: when
\* the transmission of a request has started, the transmission of every
\* request enqueued before it has completed.
C34_QueueIsFIFO ==
    \A a, b \in 1..Len(queued) :
        ( a < b /\ Started(b) ) => Completed(a)

\* C35: under any interleaving of the sends and retries of several users
\* the failed counter is never negative, and totalSMS and successful never
\* decrease from a state to the next.
C35_CountersMonotone ==
    /\ [](systemStats.failed >= 0)
    /\ [][ /\ systemStats'.totalSMS >= systemStats.totalSMS
           /\ systemStats'.successful >= systemStats.successful ]_vars

\* Two users' sends have been counted, a success before a failure or after
\* it, and the retry of the failed one has run.
C35_Witness ==
    /\ Len(sends) = 2
    /\ sends[1].user # sends[2].user
    /\ sends[1].first = "ok"
    /\ sends[2].first = "fail"
    /\ sends[2].retry = "fail"
    /\ systemStats = [totalSMS |-> 2, successful |-> 1, failed |-> 1]

\* No sendSMS invocation is suspended and no retry timer is armed.
Quiescent == \A k \in 1..Len(sends) : sends[k].pc = "done"

\* The entries of the transmission log recorded with this success flag.
Logged(success) == { i \in 1..Len(smsLogs) : smsLogs[i].success = success }

C37_EditWithoutSessionIsHarmless ==
    [][ \A u \in Users, action \in EditActions :
          ( userSessions[u] = NoSession /\ handleCallbackQuery(u, action) )
          => /\ reply' # "handler_error"
             /\ userSessions' = userSessions ]_vars

====
